---- MODULE Spec2Model ----
(***************************************************************************)
(* Model of Sympal (src/Sympal): the MailingList synchronisation engine.  *)
(*   - the bounded concurrent dispatcher (__send_concurrent_requests),    *)
(*   - the staleness gate / admin gate (update, check_populated_...),     *)
(*   - the registry passes (__rows_to_Subscribers, bouncing pass),        *)
(*   - the reconciliation of set_subscribers.                             *)
(* Time is counted in ticks of one poll interval (FREQUENCY seconds).     *)
(***************************************************************************)
EXTENDS Integers, Sequences, FiniteSets, TLC

\* ------------------------------------------------------------------ bounds
\* largest pool size W explored (Sympa.MAX_CONCURRENT_REQUEST_THREADS is 4;
\* the dispatcher reads it at call time, the model explores 1..MaxW)
MaxW == 2
\* largest batch size N explored by the dispatcher specification
MaxRequests == 5

\* number of distinct email addresses (emails are 1..MaxEmails, in the order
\* the review page sorts them: sortby=email)
MaxEmails == 2
\* longest table (number of rows) a parsed page carries
MaxRows == 2
\* longest desired-subscriber input (list items, dict entries, file lines)
MaxItems == 2
\* number of distinct email addresses on the server a whole MailingList is
\* driven against (the calls of a client, with their fetches and dispatches)
MaxListEmails == 1
\* number of distinct list names the sidebar of a page can link to
MaxNames == 3

\* ------------------------------------------------------- program constants
MAX_CONCURRENT_REQUEST_THREADS == 4
\* How frequently to update the MailingList instances in minutes
UPDATE_MINS == 5
\* poll loop: seconds until timeout, seconds slept between fetches
TIMEOUT == 60
FREQUENCY == 10
\* a deadline two intervals later than TIMEOUT
TimeoutTicksMutLate == (TIMEOUT + 2 * FREQUENCY) \div FREQUENCY
\* one tick of the model's clock is one sleep of the poll loop
TimeoutTicks == TIMEOUT \div FREQUENCY
UpdateTicks == (UPDATE_MINS * 60) \div FREQUENCY
\* ages beyond the update interval all behave alike: the clock stops there
AgeCap == UpdateTicks + 1

\* the stop signal q.put(None): queue items are request indices 1..N, None is 0
StopSignal == 0

VARIABLES
    \* ---- __send_concurrent_requests: locals of one call and its threads
    concurrent,        \* pool size W read at MailingList.py:334
    requests,          \* the batch: sequence of payload dicts
    q,                 \* Queue(concurrent * 2): indices into requests, or None
    unfinished_tasks,  \* Queue.unfinished_tasks (put: +1, task_done: -1)
    pc,                \* position of the calling thread
    di,                \* loop counter of the calling thread's current loop
    wpc,               \* position of each worker thread
    wdata,             \* the payload (index) a worker holds, 0 when none
    handed,            \* per request: number of gateway post calls begun
    posted,            \* per request: number of gateway post calls returned
    \* ---- MailingList instance
    subscribers,       \* self._subscribers: dict email -> Subscriber, in insertion order
    desired,           \* set_subscribers: the dict __subs_from_obj returned
    review,            \* self.review: the cached review page (a Response) or None
    review_bouncing,   \* self.review_bouncing: the cached bouncing page or None
    admin,             \* self._admin
    age,               \* datetime.now() - self._last_updated, in ticks
    op,                \* the public method being executed and its arguments
    phase,             \* "update": in the wrapper's update(); "body": in func; "nested": in the wrapper of a get_bouncing func calls
    result,            \* what the method returned or raised
    log,               \* gateway calls and steps of the current call, in order
    page,              \* the local snapshot "page" of a poll loop
    deadline,          \* ticks left until the poll loop's timeout
    \* ---- the remote Sympa server
    remote,            \* members, bouncing members, role of the session's user
    \* ---- the registry passes on their own
    rows,              \* the table handed to the last pass
    before,            \* self._subscribers when the last pass began
    outcome,           \* how the last pass ended
    \* ---- the Sympa session
    lists,             \* self.lists: the names a MailingList was created for
    spc,               \* position of the thread calling log_in / populate_all
    login,             \* the page log_in or populate_all received
    populate,          \* log_in's populate argument
    names,             \* the list names __populate_all_lists has still to put
    ppc,               \* position of each populate thread
    pname,             \* the list name a populate thread holds, 0 when none
    updates,           \* per list name: the threads that ran its update(), in order
    stderr,            \* what the call printed to stderr
    sop,               \* the Sympa method being executed
    logged_in,         \* server side: the session is authenticated
    \* ---- threads of the client calling update() on one MailingList
    upc,               \* position of each calling thread inside update()
    ulog,              \* gateway calls and steps of these threads, in order
    \* ---- a caller constructing a Subscriber
    sub_given,         \* the keyword arguments of the Subscriber(...) call
    sub_made,          \* the Subscriber the caller got back: <<>> when none
    sub_error          \* the exception that reached the caller, "" when none

dvars == <<concurrent, requests, q, unfinished_tasks, pc, di, wpc, wdata,
           handed, posted>>

rvars == <<subscribers, desired, rows, before, outcome>>

lvars == <<review, review_bouncing, admin, age, op, phase, result, log, page, deadline>>

svars == <<lists, spc, login, populate, names, ppc, pname, updates, stderr, sop, logged_in, upc, ulog,
          sub_given, sub_made, sub_error>>

vars == <<concurrent, requests, q, unfinished_tasks, pc, di, wpc, wdata,
          handed, posted, subscribers, desired, rows, before, outcome,
          review, review_bouncing, admin, age, op, phase, result, log, page,
          deadline, remote, lists, spc, login, populate, names, ppc, pname,
          updates, stderr, sop, logged_in, upc, ulog,
          sub_given, sub_made, sub_error>>

WorkerIds == 1..MaxW

\* ------------------------------------------------------------- payloads
\* __remove_subscriber_request / __add_subscriber_request / __reset_bouncing_request
RemoveRequest(email) == [action |-> "action_del", email |-> email, name |-> ""]
AddRequest(email, real_name) ==
    [action |-> "action_add", email |-> email, name |-> real_name]
ResetRequest(email) == [action |-> "action_resetbounce", email |-> email, name |-> ""]

\* =========================================================== Subscriber.py
Emails == 1..MaxEmails

\* Python's None, where the model needs it as a value of a field
None == "None"

\* Attributes that are expected to belong to each Subscriber
subscriber_info == {"email", "name", "picture", "reception", "sources",
                    "sub_date", "last_update", "mailing_list"}
\* Attributes describing the bouncing status of the Subscriber
bouncing_info == {"bouncing", "bounce_score", "bounce_count", "first_bounce",
                  "last_bounce"}
\* All recognized attributes
recognized_attrs == subscriber_info \cup bouncing_info

\* Subscriber.__set_attributes: setattr for each allowed key the dict carries
SetAttributes(self, given_dict, allowed_keys) ==
    [key \in (DOMAIN self) \cup (allowed_keys \cap DOMAIN given_dict) |->
        IF key \in allowed_keys /\ key \in DOMAIN given_dict
        THEN given_dict[key]
        ELSE self[key]]

\* an update that takes every recognized attribute from the dict
UpdateSubscriberInfoMutAllAttrs(self, kwargs) ==
    SetAttributes(self, kwargs, recognized_attrs)

\* Subscriber.update_subscriber_info
UpdateSubscriberInfo(self, kwargs) == SetAttributes(self, kwargs, subscriber_info)

\* Subscriber.update_bouncing_info
UpdateBouncingInfo(self, kwargs) == SetAttributes(self, kwargs, bouncing_info)

\* Subscriber.__init__ with 'email' and 'mailing_list' present
NewSubscriber(kwargs) == SetAttributes(<<>>, kwargs, recognized_attrs)

\* a constructor without the two assert statements
SubscriberInitMutNoAssert(kwargs) ==
    [raised |-> FALSE, made |-> <<NewSubscriber(kwargs)>>]

\* Subscriber.__init__ as its caller sees it: the asserts on 'email' and
\* 'mailing_list' (executed: the interpreter runs without -O), the
\* AssertionError printed and raised again, else __set_attributes
SubscriberInit(kwargs) ==
    IF "email" \in DOMAIN kwargs /\ "mailing_list" \in DOMAIN kwargs
    THEN [raised |-> FALSE, made |-> <<NewSubscriber(kwargs)>>]
    ELSE [raised |-> TRUE, made |-> <<>>]

\* ============================================== MailingList.py: page tables
\* the subscriber-info columns of a review-page row, as the page renders them
RowInfos ==
    { [name |-> "A", reception |-> "mail", sources |-> "subscribed",
       sub_date |-> "01 Jan 2016", last_update |-> "01 Jan 2016"],
      [name |-> "B", reception |-> "nomail", sources |-> "included",
       sub_date |-> "02 Feb 2016", last_update |-> "03 Mar 2016"] }

\* the columns of a review-bouncing-page row
BounceInfos ==
    { [bounce_score |-> "37", bounce_count |-> "str:4",
       first_bounce |-> "05 May 2016", last_bounce |-> "06 Jun 2016"] }

\* a row dict whose bounce fields are not the not-bouncing defaults
tr_to_subscriber_dictMutBouncing(email, info) ==
    [email |-> email, picture |-> "td", name |-> info.name,
     reception |-> info.reception, sources |-> info.sources,
     sub_date |-> info.sub_date, last_update |-> info.last_update,
     mailing_list |-> "self",
     bouncing |-> TRUE, bounce_score |-> "no score", bounce_count |-> "int:0",
     first_bounce |-> None, last_bounce |-> None]

\* __rows_to_Subscribers.tr_to_subscriber_dict: the dict built from one <tr>
tr_to_subscriber_dict(email, info) ==
    [email |-> email, picture |-> "td", name |-> info.name,
     reception |-> info.reception, sources |-> info.sources,
     sub_date |-> info.sub_date, last_update |-> info.last_update,
     mailing_list |-> "self",
     bouncing |-> FALSE, bounce_score |-> "no score", bounce_count |-> "int:0",
     first_bounce |-> None, last_bounce |-> None]

\* __update_subscriber_bouncing_info.tr_to_subscriber_info
tr_to_subscriber_info(email, info) ==
    [email |-> email, bouncing |-> TRUE, bounce_score |-> info.bounce_score,
     bounce_count |-> info.bounce_count, first_bounce |-> info.first_bounce,
     last_bounce |-> info.last_bounce]

\* the default bouncing dict d of __update_subscriber_bouncing_info
DefaultBouncing ==
    [bouncing |-> FALSE, bounce_score |-> "no score", bounce_count |-> "int:0",
     first_bounce |-> None, last_bounce |-> None]

SubscriberRows == {tr_to_subscriber_dict(e, i) : e \in Emails, i \in RowInfos}
BouncingRows == {tr_to_subscriber_info(e, i) : e \in Emails, i \in BounceInfos}

SeqsUpTo(S, n) == UNION {[1..k -> S] : k \in 0..n}

\* ------------------------------------------------------- dict helpers
\* self._subscribers is a dict in insertion order: a sequence of Subscribers
\* with pairwise different emails
Keys(subs) == {subs[i].email : i \in 1..Len(subs)}
KeyList(subs) == [i \in 1..Len(subs) |-> subs[i].email]
IndexOf(subs, email) == CHOOSE i \in 1..Len(subs) : subs[i].email = email
Lookup(subs, email) == subs[IndexOf(subs, email)]
RowEmails(trs) == {trs[i].email : i \in 1..Len(trs)}

\* ------------------------------------------------- __rows_to_Subscribers
\* lines 236-246: the loop over the rows, from row i on
RECURSIVE MergeRows(_, _, _)
MergeRows(subs, list_of_trs, i) ==
    IF i > Len(list_of_trs) THEN subs
    ELSE LET data == list_of_trs[i]
             next == IF data.email \in Keys(subs)
                     THEN [subs EXCEPT ![IndexOf(subs, data.email)] =
                               UpdateSubscriberInfo(@, data)]
                     ELSE Append(subs, NewSubscriber(data))
         IN MergeRows(next, list_of_trs, i + 1)

\* a pass that never removes what the page no longer lists
RowsToSubscribersMutNoPrune(subs, list_of_trs) == MergeRows(subs, list_of_trs, 1)

\* __rows_to_Subscribers
RowsToSubscribers(subs, list_of_trs) ==
    LET extant == subs # <<>>
        found_emails == RowEmails(list_of_trs)
        merged == MergeRows(subs, list_of_trs, 1)
    IN IF extant
       THEN SelectSeq(merged, LAMBDA sub : sub.email \in found_emails)
       ELSE merged

\* the message printed when the table is not found on the page: chosen by
\* "if not self._admin"
MissingTableCause(flag, empty_message) ==
    IF ~flag THEN "AUTHMSG" ELSE empty_message

\* a review pass that leaves the registry alone when the table is not found
UpdateSubscribersFromRootMutKeep(subs, page_root) ==
    IF page_root.table THEN RowsToSubscribers(subs, page_root.rows) ELSE subs

\* __update_subscribers_from_root: rows stays [] when neither XPath finds the table
UpdateSubscribersFromRoot(subs, page_root) ==
    RowsToSubscribers(subs, IF page_root.table THEN page_root.rows ELSE <<>>)

\* --------------------------------------- __update_subscriber_bouncing_info
\* lines 179-182: the loop over the bouncing rows, from row i on; a row whose
\* email is not a key raises KeyError out of the loop
RECURSIVE ApplyBouncingRows(_, _, _)
ApplyBouncingRows(subs, list_of_trs, i) ==
    IF i > Len(list_of_trs) THEN [subs |-> subs, raised |-> FALSE]
    ELSE LET info == list_of_trs[i]
         IN IF info.email \in Keys(subs)
            THEN ApplyBouncingRows(
                     [subs EXCEPT ![IndexOf(subs, info.email)] =
                         UpdateBouncingInfo(@, info)],
                     list_of_trs, i + 1)
            ELSE [subs |-> subs, raised |-> TRUE]

\* a bounce pass without the loop that resets every entry to the defaults
UpdateSubscriberBouncingInfoMutNoReset(subs, list_of_trs) ==
    ApplyBouncingRows(subs, list_of_trs, 1)

\* __update_subscriber_bouncing_info
UpdateSubscriberBouncingInfo(subs, list_of_trs) ==
    ApplyBouncingRows(
        [i \in 1..Len(subs) |-> UpdateBouncingInfo(subs[i], DefaultBouncing)],
        list_of_trs, 1)

\* __update_bouncing_from_root: rows is None when the table is not found;
\* "if rows:" skips the pass for None and for an empty list
UpdateBouncingFromRoot(subs, page_root) ==
    IF page_root.table /\ page_root.rows # <<>>
    THEN UpdateSubscriberBouncingInfo(subs, page_root.rows)
    ELSE [subs |-> subs, raised |-> FALSE]

\* get_bouncing
GetBouncing(subs) == SelectSeq(subs, LAMBDA sub : sub.bouncing)

\* ------------------------------------------------------- set_subscribers
Names == {info.name : info \in RowInfos}

Injective(f) == \A i, j \in DOMAIN f : f[i].email = f[j].email => i = j

\* what __subs_from_obj returns: a dict email -> Subscriber(email, name), in
\* insertion order
DesiredDicts ==
    {d \in SeqsUpTo([email : Emails, name : Names], MaxEmails) : Injective(d)}

\* a diff that also re-adds a subscriber whose name differs
SetSubscribersRequestsMutRename(subs, input) ==
    LET emails == KeyList(input)
        self_emails == KeyList(subs)
        add_m == SelectSeq(emails, LAMBDA x :
                     x \notin Keys(subs) \/ Lookup(subs, x).name # Lookup(input, x).name)
        deletions == SelectSeq(self_emails, LAMBDA x : x \notin Keys(input))
    IN [i \in 1..Len(add_m) |-> AddRequest(add_m[i], Lookup(input, add_m[i]).name)]
         \o [i \in 1..Len(deletions) |-> RemoveRequest(deletions[i])]

\* set_subscribers, lines 423-439: requests = add_requests + del_requests
SetSubscribersRequests(subs, input) ==
    LET emails == KeyList(input)
        self_emails == KeyList(subs)
        add_m == SelectSeq(emails, LAMBDA x : x \notin Keys(subs))
        additions == [i \in 1..Len(add_m) |->
                         [email |-> add_m[i], real_name |-> Lookup(input, add_m[i]).name]]
        deletions == SelectSeq(self_emails, LAMBDA x : x \notin Keys(input))
        add_requests == [i \in 1..Len(additions) |->
                            AddRequest(additions[i].email, additions[i].real_name)]
        del_requests == [i \in 1..Len(deletions) |-> RemoveRequest(deletions[i])]
    IN add_requests \o del_requests

\* ================================================= the remote Sympa server
\* Roles that signify admin privileges
PRIV_ROLES == {"Privileged owner", "Owner", "Moderator", "Privileged moderator"}
\* what the Identity element of a page can say about the session's user
Roles == {"Owner", "Subscriber"}

\* the addresses of the server a whole MailingList is driven against
ListEmails == 1..MaxListEmails

\* the list as the server holds it: its members, those of them that bounce,
\* and the role of the logged-in user
RemoteStates ==
    {r \in [members : SUBSET ListEmails, bouncers : SUBSET ListEmails, role : Roles] :
        r.bouncers \subseteq r.members}

\* Sympa.post(**data): the server carries out a request of a privileged user
\* before the call returns and ignores the request of any other user
ApplyPost(r, data) ==
    IF r.role \notin PRIV_ROLES THEN r
    ELSE IF data.action = "action_add"
         THEN [r EXCEPT !.members = @ \cup ({data.email} \cap Emails)]
    ELSE IF data.action = "action_del"
         THEN [r EXCEPT !.members = @ \ {data.email}, !.bouncers = @ \ {data.email}]
    ELSE [r EXCEPT !.bouncers = @ \ {data.email}]

SortedSeq(S) ==
    CHOOSE sq \in [1..Cardinality(S) -> S] :
        \A i, j \in 1..Cardinality(S) : i < j => sq[i] < sq[j]

\* the columns the server renders for every member
RemoteInfo == CHOOSE info \in RowInfos : info.name = "A"
RemoteBounceInfo == CHOOSE info \in BounceInfos : TRUE

\* a Response that is not there
NoPage == [kind |-> "None"]

\* Sympa.get_page(review_uri): the review page, sorted by email; the table of
\* subscribers is shown to privileged users of a list that has members
RenderReview(r) ==
    LET shown == r.role \in PRIV_ROLES /\ r.members # {}
        order == SortedSeq(r.members)
    IN [kind |-> "review", ok |-> TRUE, role |-> r.role, table |-> shown,
        rows |-> IF shown
                 THEN [i \in 1..Len(order) |-> tr_to_subscriber_dict(order[i], RemoteInfo)]
                 ELSE <<>>]

\* Sympa.get_page(review_bouncing_uri); status is the HTTP status being < 400
RenderBouncing(r, status) ==
    LET shown == status /\ r.role \in PRIV_ROLES /\ r.bouncers # {}
        order == SortedSeq(r.bouncers)
    IN [kind |-> "reviewbouncing", ok |-> status, role |-> "", table |-> shown,
        rows |-> IF shown
                 THEN [i \in 1..Len(order) |->
                          tr_to_subscriber_info(order[i], RemoteBounceInfo)]
                 ELSE <<>>]

\* ----------------------------------------------------- queue.Queue helpers
\* Queue(concurrent * 2): maxsize
QueueMaxsize(c) == c * 2
QueueFull == Len(q) >= QueueMaxsize(concurrent)

\* ---------------------------------------------- __send_concurrent_requests
\* a start loop that creates a thread for every id there is, whatever concurrent says
StartWorkerMutWholePool ==
    /\ pc = "d_start"
    /\ IF di < MaxW
       THEN /\ wpc' = [wpc EXCEPT ![di + 1] = "get"]
            /\ di' = di + 1
            /\ pc' = pc
       ELSE /\ pc' = "d_put"
            /\ di' = 0
            /\ wpc' = wpc
    /\ UNCHANGED <<concurrent, requests, q, unfinished_tasks, wdata, handed, posted>>
    /\ UNCHANGED <<rvars, lvars, remote, svars>>

\* for i in range(concurrent): t = Thread(target=worker); t.start()
StartWorker ==
    /\ pc = "d_start"
    /\ IF di < concurrent
       THEN /\ wpc' = [wpc EXCEPT ![di + 1] = "get"]
            /\ di' = di + 1
            /\ pc' = pc
       ELSE /\ pc' = "d_put"
            /\ di' = 0
            /\ wpc' = wpc
    /\ UNCHANGED <<concurrent, requests, q, unfinished_tasks, wdata, handed, posted>>
    /\ UNCHANGED <<rvars, lvars, remote, svars>>

\* a put that gives up on a full queue instead of blocking
PutRequestMutDropWhenFull ==
    /\ pc = "d_put"
    /\ IF di < Len(requests)
       THEN /\ q' = IF QueueFull THEN q ELSE Append(q, di + 1)
            /\ unfinished_tasks' = IF QueueFull THEN unfinished_tasks
                                                ELSE unfinished_tasks + 1
            /\ di' = di + 1
            /\ pc' = pc
       ELSE /\ pc' = "d_join"
            /\ di' = 0
            /\ UNCHANGED <<q, unfinished_tasks>>
    /\ UNCHANGED <<concurrent, requests, wpc, wdata, handed, posted>>
    /\ UNCHANGED <<rvars, lvars, remote, svars>>

\* for request in requests: q.put(request)   (blocks while the queue is full)
PutRequest ==
    /\ pc = "d_put"
    /\ IF di < Len(requests)
       THEN /\ ~QueueFull
            /\ q' = Append(q, di + 1)
            /\ unfinished_tasks' = unfinished_tasks + 1
            /\ di' = di + 1
            /\ pc' = pc
       ELSE /\ pc' = "d_join"
            /\ di' = 0
            /\ UNCHANGED <<q, unfinished_tasks>>
    /\ UNCHANGED <<concurrent, requests, wpc, wdata, handed, posted>>
    /\ UNCHANGED <<rvars, lvars, remote, svars>>

\* a dispatch that goes on to stop the workers without waiting in q.join()
JoinQueueMutNoWait ==
    /\ pc = "d_join"
    /\ pc' = "d_stop"
    /\ di' = 0
    /\ UNCHANGED <<concurrent, requests, q, unfinished_tasks, wpc, wdata, handed, posted>>
    /\ UNCHANGED <<rvars, lvars, remote, svars>>

\* q.join(): returns when unfinished_tasks is zero
JoinQueue ==
    /\ pc = "d_join"
    /\ unfinished_tasks = 0
    /\ pc' = "d_stop"
    /\ di' = 0
    /\ UNCHANGED <<concurrent, requests, q, unfinished_tasks, wpc, wdata, handed, posted>>
    /\ UNCHANGED <<rvars, lvars, remote, svars>>

\* for i in range(concurrent): q.put(None)
PutStop ==
    /\ pc = "d_stop"
    /\ IF di < concurrent
       THEN /\ ~QueueFull
            /\ q' = Append(q, StopSignal)
            /\ unfinished_tasks' = unfinished_tasks + 1
            /\ di' = di + 1
            /\ pc' = pc
       ELSE /\ pc' = "d_tjoin"
            /\ di' = 0
            /\ UNCHANGED <<q, unfinished_tasks>>
    /\ UNCHANGED <<concurrent, requests, wpc, wdata, handed, posted>>
    /\ UNCHANGED <<rvars, lvars, remote, svars>>

\* a join loop that does not wait for the thread
JoinThreadMutNoWait ==
    /\ pc = "d_tjoin"
    /\ IF di < concurrent
       THEN /\ di' = di + 1
            /\ pc' = pc
       ELSE /\ pc' = "d_done"
            /\ di' = 0
    /\ UNCHANGED <<concurrent, requests, q, unfinished_tasks, wpc, wdata, handed, posted>>
    /\ UNCHANGED <<rvars, lvars, remote, svars>>

\* for t in threads: t.join()   (a thread that ended by an exception is joined too)
JoinThread ==
    /\ pc = "d_tjoin"
    /\ IF di < concurrent
       THEN /\ wpc[di + 1] \in {"exited", "raised"}
            /\ di' = di + 1
            /\ pc' = pc
       ELSE /\ pc' = "d_done"
            /\ di' = 0
    /\ UNCHANGED <<concurrent, requests, q, unfinished_tasks, wpc, wdata, handed, posted>>
    /\ UNCHANGED <<rvars, lvars, remote, svars>>

\* worker: data = q.get(); if data is None: break; self.sympa.post(**data) begins
WorkerGet(w) ==
    /\ wpc[w] = "get"
    /\ Len(q) > 0
    /\ q' = Tail(q)
    /\ IF Head(q) = StopSignal
       THEN /\ wpc' = [wpc EXCEPT ![w] = "exited"]
            /\ UNCHANGED <<wdata, handed>>
       ELSE /\ wpc' = [wpc EXCEPT ![w] = "posting"]
            /\ wdata' = [wdata EXCEPT ![w] = Head(q)]
            /\ handed' = [handed EXCEPT ![Head(q)] = @ + 1]
    /\ UNCHANGED <<concurrent, requests, unfinished_tasks, pc, di, posted>>
    /\ UNCHANGED <<rvars, lvars, remote, svars>>

\* a worker that also drops the posted address from the registry itself
WorkerPostReturnMutTouchesRegistry(w) ==
    /\ wpc[w] = "posting"
    /\ posted' = [posted EXCEPT ![wdata[w]] = @ + 1]
    /\ wpc' = [wpc EXCEPT ![w] = "task_done"]
    /\ UNCHANGED <<concurrent, requests, q, unfinished_tasks, pc, di, wdata, handed>>
    /\ remote' = ApplyPost(remote, requests[wdata[w]])
    /\ subscribers' = SelectSeq(subscribers,
                                LAMBDA sub : sub.email # requests[wdata[w]].email)
    /\ UNCHANGED <<desired, rows, before, outcome, lvars, svars>>

\* self.sympa.post(**data) returns
WorkerPostReturn(w) ==
    /\ wpc[w] = "posting"
    /\ posted' = [posted EXCEPT ![wdata[w]] = @ + 1]
    /\ wpc' = [wpc EXCEPT ![w] = "task_done"]
    /\ UNCHANGED <<concurrent, requests, q, unfinished_tasks, pc, di, wdata, handed>>
    /\ remote' = ApplyPost(remote, requests[wdata[w]])
    /\ UNCHANGED <<rvars, lvars, svars>>

\* self.sympa.post(**data) raises (requests' network errors are not caught by
\* the worker): the exception ends the thread before q.task_done()
WorkerPostRaise(w) ==
    /\ wpc[w] = "posting"
    /\ wpc' = [wpc EXCEPT ![w] = "raised"]
    /\ wdata' = [wdata EXCEPT ![w] = 0]
    /\ UNCHANGED <<concurrent, requests, q, unfinished_tasks, pc, di, handed, posted>>
    /\ UNCHANGED <<rvars, lvars, remote, svars>>

\* a worker loop that forgets q.task_done()
WorkerTaskDoneMutForgotten(w) ==
    /\ wpc[w] = "task_done"
    /\ wpc' = [wpc EXCEPT ![w] = "get"]
    /\ wdata' = [wdata EXCEPT ![w] = 0]
    /\ UNCHANGED <<concurrent, requests, q, unfinished_tasks, pc, di, handed, posted>>
    /\ UNCHANGED <<rvars, lvars, remote, svars>>

\* q.task_done(), then back to the top of the loop
WorkerTaskDone(w) ==
    /\ wpc[w] = "task_done"
    /\ unfinished_tasks' = unfinished_tasks - 1
    /\ wpc' = [wpc EXCEPT ![w] = "get"]
    /\ wdata' = [wdata EXCEPT ![w] = 0]
    /\ UNCHANGED <<concurrent, requests, q, pc, di, handed, posted>>
    /\ UNCHANGED <<rvars, lvars, remote, svars>>

\* the calling thread inside __send_concurrent_requests
DispatchMain == StartWorker \/ PutRequest \/ JoinQueue \/ PutStop \/ JoinThread

\* a worker thread whose post calls return
WorkerOK(w) == WorkerGet(w) \/ WorkerPostReturn(w) \/ WorkerTaskDone(w)

\* ------------------------------------------------ the two passes on their own
\* MailingList.__init__ and no call in progress
FreshList ==
    /\ review = NoPage
    /\ review_bouncing = NoPage
    /\ admin = FALSE
    /\ age = 0
    /\ op = [name |-> "none", email |-> 0]
    /\ phase = "none"
    /\ result = None
    /\ log = <<>>
    /\ page = NoPage
    /\ deadline = 0

\* Sympa.__init__: self.lists = {}; no call made, no thread started
ListNames == 1..MaxNames

NoSession ==
    /\ lists = {}
    /\ spc = "idle"
    /\ sop = "none"
    /\ login = [action_logout |-> FALSE, links |-> {}]
    /\ populate = FALSE
    /\ names = <<>>
    /\ ppc = [w \in WorkerIds |-> "unstarted"]
    /\ pname = [w \in WorkerIds |-> 0]
    /\ updates = [n \in ListNames |-> <<>>]
    /\ stderr = ""
    /\ logged_in = FALSE

\* no Subscriber(...) call is being made
NoConstruction ==
    /\ sub_given = <<>>
    /\ sub_made = <<>>
    /\ sub_error = ""

\* no thread is inside update()
Callers == {1, 2}

NoCallers ==
    /\ upc = [t \in Callers |-> "idle"]
    /\ ulog = <<>>

\* nothing is being dispatched
NoDispatch ==
    /\ concurrent = MAX_CONCURRENT_REQUEST_THREADS
    /\ requests = <<>>
    /\ q = <<>>
    /\ unfinished_tasks = 0
    /\ pc = "idle"
    /\ di = 0
    /\ wpc = [w \in WorkerIds |-> "unstarted"]
    /\ wdata = [w \in WorkerIds |-> 0]
    /\ handed = <<>>
    /\ posted = <<>>

\* parsed page roots: the table with its rows, or no table at the XPath
Tables(RowSet) ==
    {[table |-> TRUE, rows |-> trs] : trs \in SeqsUpTo(RowSet, MaxRows)}
        \cup {[table |-> FALSE, rows |-> <<>>]}

\* MailingList.__init__: self._subscribers = {}
InitRegistry ==
    /\ NoDispatch
    /\ review = NoPage
    /\ review_bouncing = NoPage
    /\ admin \in BOOLEAN
    /\ NoSession
    /\ NoCallers
    /\ NoConstruction
    /\ age = 0
    /\ op = [name |-> "none", email |-> 0]
    /\ phase = "none"
    /\ result = None
    /\ log = <<>>
    /\ page = NoPage
    /\ deadline = 0
    /\ remote = [members |-> {}, bouncers |-> {}, role |-> "Owner"]
    /\ subscribers = <<>>
    /\ desired = <<>>
    /\ rows = <<>>
    /\ before = <<>>
    /\ outcome = "init"

\* __update_from_review without waiting, on a page whose table has these rows
ReviewPass ==
    \E page_root \in Tables(SubscriberRows) :
        /\ outcome = "init"
        /\ subscribers' = UpdateSubscribersFromRoot(subscribers, page_root)
        /\ rows' = IF page_root.table THEN page_root.rows ELSE <<>>
        /\ before' = subscribers
        /\ outcome' = "review"
        /\ log' = IF page_root.table THEN <<>>
                  ELSE <<MissingTableCause(admin, "has no subscriptions")>>
        /\ UNCHANGED <<review, review_bouncing, admin, age, op, phase, result,
                       page, deadline>>
        /\ UNCHANGED <<dvars, desired, remote, svars>>

\* __update_from_review_bouncing without waiting, on a page with these rows
BouncingPass ==
    \E page_root \in Tables(BouncingRows) :
        LET r == UpdateBouncingFromRoot(subscribers, page_root)
        IN /\ outcome = "init"
           /\ subscribers' = r.subs
           /\ rows' = IF page_root.table THEN page_root.rows ELSE <<>>
           /\ before' = subscribers
           /\ outcome' = IF r.raised THEN "KeyError" ELSE "bouncing"
           /\ log' = IF page_root.table THEN <<>>
                     ELSE <<MissingTableCause(admin, "has no bouncing subscriptions")>>
           /\ UNCHANGED <<review, review_bouncing, admin, age, op, phase, result,
                          page, deadline>>
           /\ UNCHANGED <<dvars, desired, remote, svars>>

\* lines 422-439 of set_subscribers on a normalized desired dict
Reconcile ==
    \E subs \in DesiredDicts :
        /\ outcome = "init"
        /\ desired' = subs
        /\ requests' = SetSubscribersRequests(subscribers, subs)
        /\ before' = subscribers
        /\ outcome' = "reconcile"
        /\ UNCHANGED <<subscribers, rows, lvars, remote, svars>>
        /\ UNCHANGED <<concurrent, q, unfinished_tasks, pc, di, wpc, wdata, handed, posted>>

\* the pass has returned (or its KeyError has propagated): its locals are gone
PassReturns ==
    /\ outcome # "init"
    /\ rows' = <<>>
    /\ before' = <<>>
    /\ desired' = <<>>
    /\ requests' = <<>>
    /\ outcome' = "init"
    /\ log' = <<>>
    /\ UNCHANGED <<review, review_bouncing, admin, age, op, phase, result, page,
                   deadline>>
    /\ UNCHANGED <<subscribers, remote, svars>>
    /\ UNCHANGED <<concurrent, q, unfinished_tasks, pc, di, wpc, wdata, handed, posted>>

NextRegistry ==
    \/ ReviewPass
    \/ BouncingPass
    \/ Reconcile
    \/ PassReturns

SpecRegistry == InitRegistry /\ [][NextRegistry]_vars

\* ============================================ __subs_from_obj on its own
\* the items of a list passed to set_subscribers: Subscriber objects, tuples
\* of two str, str, and what cannot be parsed (a tuple of three, a tuple with
\* a part that is no str, an int)
ListItems ==
    [type : {"Subscriber", "tuple"}, email : Emails, name : Names]
        \cup [type : {"str"}, email : Emails, name : {""}]
        \cup [type : {"tuple3", "tuple_nonstr", "int"}, email : {0}, name : {""}]

\* the entries of a dict passed to set_subscribers: key 0 is a key that is no
\* str; the value is a str (the name), a Subscriber (with its own email and
\* name) or something else
DictEntries ==
    {en \in [key : Emails \cup {0}, vtype : {"str"}, email : Emails \cup {0},
             name : Names] : en.email = en.key}
        \cup [key : Emails, vtype : {"Subscriber"}, email : Emails, name : Names]
        \cup {en \in [key : Emails, vtype : {"int"}, email : Emails, name : {""}] :
                 en.email = en.key}

\* a dict has each key once
DictInputs ==
    {d \in SeqsUpTo(DictEntries, MaxItems) :
        \A i, j \in 1..Len(d) : d[i].key = d[j].key => i = j}

\* the lines of a file: "email", "email name", or a blank line (email 0)
FileLines ==
    [email : Emails, name : Names \cup {""}] \cup {[email |-> 0, name |-> ""]}

\* line.split()
Split(line) ==
    (IF line.email = 0 THEN <<>> ELSE <<"email">>)
        \o (IF line.name = "" THEN <<>> ELSE <<"name">>)

\* Subscriber(email=..., name=..., mailing_list=self), as set_subscribers reads it
DesiredSubscriber(email, name) == [email |-> email, name |-> name]

\* __subs_from_list, from item i on
RECURSIVE SubsFromListFrom(_, _)
SubsFromListFrom(sub_obj, i) ==
    IF i > Len(sub_obj) THEN <<>>
    ELSE LET item == sub_obj[i]
             new == IF item.type = "Subscriber"
                    THEN <<DesiredSubscriber(item.email, item.name)>>
                    ELSE IF item.type \in {"tuple", "tuple3", "tuple_nonstr"}
                    THEN IF item.type = "tuple"
                         THEN <<DesiredSubscriber(item.email, item.name)>>
                         ELSE <<>>
                    ELSE IF item.type = "str"
                    THEN <<DesiredSubscriber(item.email, "")>>
                    ELSE <<>>
         IN new \o SubsFromListFrom(sub_obj, i + 1)

\* __subs_from_list
SubsFromList(sub_obj) == SubsFromListFrom(sub_obj, 1)

\* __subs_from_dict, from entry i on
RECURSIVE SubsFromDictFrom(_, _)
SubsFromDictFrom(sub_obj, i) ==
    IF i > Len(sub_obj) THEN <<>>
    ELSE LET en == sub_obj[i]
             new == IF en.key # 0 /\ en.vtype = "str"
                    THEN <<DesiredSubscriber(en.key, en.name)>>
                    ELSE IF en.key # 0 /\ en.vtype = "Subscriber"
                    THEN <<DesiredSubscriber(en.email, en.name)>>
                    ELSE <<>>
         IN new \o SubsFromDictFrom(sub_obj, i + 1)

\* __subs_from_dict
SubsFromDict(sub_obj) == SubsFromDictFrom(sub_obj, 1)

\* __subs_from_file, from line i on: "if line is not ''" holds for every line
\* readlines() returns; chunks[0] of a line without chunks raises IndexError
RECURSIVE SubsFromFileFrom(_, _, _)
SubsFromFileFrom(lines, i, new_subscriber_list) ==
    IF i > Len(lines) THEN [list |-> new_subscriber_list, raised |-> FALSE]
    ELSE LET line == lines[i]
             chunks == Split(line)
         IN IF Len(chunks) = 0
            THEN [list |-> new_subscriber_list, raised |-> TRUE]
            ELSE SubsFromFileFrom(lines, i + 1,
                     Append(new_subscriber_list,
                            DesiredSubscriber(line.email,
                                IF Len(chunks) >= 2 THEN line.name ELSE "")))

\* __subs_from_file
SubsFromFile(sub_obj) == SubsFromFileFrom(sub_obj, 1, <<>>)

\* __sub_d: dictionary[sub.email] = sub, from item i on
RECURSIVE SubD(_, _, _)
SubD(list_of_Subscribers, i, dictionary) ==
    IF i > Len(list_of_Subscribers) THEN dictionary
    ELSE LET sub == list_of_Subscribers[i]
         IN SubD(list_of_Subscribers, i + 1,
                 IF sub.email \in Keys(dictionary)
                 THEN [dictionary EXCEPT ![IndexOf(dictionary, sub.email)] = sub]
                 ELSE Append(dictionary, sub))

\* sub_list for a list: all Subscriber objects are taken as they are
SubListOfList(subs) ==
    IF \A i \in 1..Len(subs) : subs[i].type = "Subscriber"
    THEN [i \in 1..Len(subs) |-> DesiredSubscriber(subs[i].email, subs[i].name)]
    ELSE SubsFromList(subs)

\* sub_list for a dict: all Subscriber values are taken as they are
SubListOfDict(subs) ==
    IF \A i \in 1..Len(subs) : subs[i].vtype = "Subscriber"
    THEN [i \in 1..Len(subs) |-> DesiredSubscriber(subs[i].email, subs[i].name)]
    ELSE SubsFromDict(subs)

\* the registries a review pass can have built
Registries ==
    {MergeRows(<<>>, trs, 1) :
        trs \in SeqsUpTo({tr_to_subscriber_dict(e, RemoteInfo) : e \in Emails}, MaxRows)}

\* what else set_subscribers can be handed: a str that names no file (the
\* text of an email address, say) or a value of another type
OtherTypes == {"str", "int", "NoneType", "tuple"}

OtherInputs ==
    [name : {"set_subscribers"}, type : {"str"}, email : Emails]
        \cup [name : {"set_subscribers"}, type : OtherTypes \ {"str"}, email : {0}]

\* a sub_list that reads a str that names no file as one email address
SubListOfOtherMutStrIsEmail(subs) ==
    IF subs.type = "str" THEN <<DesiredSubscriber(subs.email, "")>> ELSE <<>>

\* sub_list for what is neither list nor dict: a str for which isfile is false
\* falls out of the if/elif chain, as every other type does, to "return ([])"
SubListOfOther(subs) == <<>>

\* MailingList.__init__, and a sub_obj about to be passed to __subs_from_obj
InitNormalize ==
    /\ NoDispatch
    /\ NoSession
    /\ NoCallers
    /\ NoConstruction
    /\ review = NoPage
    /\ review_bouncing = NoPage
    /\ admin = FALSE
    /\ age = 0
    /\ phase = "none"
    /\ result = None
    /\ log = <<>>
    /\ page = NoPage
    /\ deadline = 0
    /\ remote = [members |-> {}, bouncers |-> {}, role |-> "Owner"]
    /\ desired = <<>>
    /\ before = <<>>
    /\ \/ /\ outcome = "list" /\ rows \in SeqsUpTo(ListItems, MaxItems)
          /\ op = [name |-> "none", email |-> 0]
          /\ subscribers = <<>>
       \/ /\ outcome = "dict" /\ rows \in DictInputs
          /\ op = [name |-> "none", email |-> 0]
          /\ subscribers = <<>>
       \/ /\ outcome = "file" /\ rows \in SeqsUpTo(FileLines, MaxItems)
          /\ op = [name |-> "none", email |-> 0]
          /\ subscribers = <<>>
       \/ /\ outcome = "other" /\ rows = <<>>
          /\ op \in OtherInputs
          /\ subscribers \in Registries

\* __subs_from_obj(list)
NormalizeList ==
    /\ outcome = "list"
    /\ desired' = SubD(SubListOfList(rows), 1, <<>>)
    /\ outcome' = "list normalized"
    /\ UNCHANGED <<dvars, subscribers, rows, before, lvars, remote, svars>>

\* __subs_from_obj(dict)
NormalizeDict ==
    /\ outcome = "dict"
    /\ desired' = SubD(SubListOfDict(rows), 1, <<>>)
    /\ outcome' = "dict normalized"
    /\ UNCHANGED <<dvars, subscribers, rows, before, lvars, remote, svars>>

\* __subs_from_obj(name of a file)
NormalizeFile ==
    LET r == SubsFromFile(rows)
    IN /\ outcome = "file"
       /\ desired' = IF r.raised THEN <<>> ELSE SubD(r.list, 1, <<>>)
       /\ outcome' = IF r.raised THEN "IndexError" ELSE "file normalized"
       /\ UNCHANGED <<dvars, subscribers, rows, before, lvars, remote, svars>>

\* set_subscribers(sub_obj) with a sub_obj that is neither list nor dict nor
\* the name of a file, lines 422-441: __subs_from_obj, the diff against the
\* registry, and "if requests:" the batch handed to the dispatcher
SetSubscribersOther ==
    /\ outcome = "other"
    /\ desired' = SubD(SubListOfOther(op), 1, <<>>)
    /\ requests' = SetSubscribersRequests(subscribers, desired')
    /\ log' = IF requests' # <<>> THEN <<"pool">> ELSE <<>>
    /\ outcome' = "other normalized"
    /\ UNCHANGED <<concurrent, q, unfinished_tasks, pc, di, wpc, wdata, handed, posted>>
    /\ UNCHANGED <<review, review_bouncing, admin, age, op, phase, result, page, deadline>>
    /\ UNCHANGED <<subscribers, rows, before, remote, svars>>

NextNormalize ==
    \/ SetSubscribersOther
    \/ NormalizeList
    \/ NormalizeDict
    \/ NormalizeFile

SpecNormalize == InitNormalize /\ [][NextNormalize]_vars

\* --------------------------------------------------- dispatcher on its own
\* a batch of n payloads (the dispatcher never looks inside a payload)
Batch(n) == [i \in 1..n |-> RemoveRequest(i)]

DispatchEntry(c, reqs) ==
    /\ concurrent = c
    /\ requests = reqs
    /\ q = <<>>
    /\ unfinished_tasks = 0
    /\ pc = "d_start"
    /\ di = 0
    /\ wpc = [w \in WorkerIds |-> "unstarted"]
    /\ wdata = [w \in WorkerIds |-> 0]
    /\ handed = [i \in 1..Len(reqs) |-> 0]
    /\ posted = [i \in 1..Len(reqs) |-> 0]
    /\ FreshList
    /\ NoSession
    /\ NoCallers
    /\ NoConstruction
    /\ remote = [members |-> {}, bouncers |-> {}, role |-> "Owner"]
    /\ subscribers = <<>>
    /\ desired = <<>>
    /\ rows = <<>>
    /\ before = <<>>
    /\ outcome = "init"

InitDispatch ==
    \E c \in 1..MaxW : \E n \in 0..MaxRequests : DispatchEntry(c, Batch(n))

NextDispatch ==
    \/ StartWorker
    \/ PutRequest
    \/ JoinQueue
    \/ PutStop
    \/ JoinThread
    \/ \E w \in WorkerIds : WorkerGet(w)
    \/ \E w \in WorkerIds : WorkerPostReturn(w)
    \/ \E w \in WorkerIds : WorkerPostRaise(w)
    \/ \E w \in WorkerIds : WorkerTaskDone(w)

SpecDispatch == InitDispatch /\ [][NextDispatch]_vars

\* every post call returns; threads are scheduled fairly
NextDispatchOK ==
    \/ StartWorker
    \/ PutRequest
    \/ JoinQueue
    \/ PutStop
    \/ JoinThread
    \/ \E w \in WorkerIds : WorkerGet(w)
    \/ \E w \in WorkerIds : WorkerPostReturn(w)
    \/ \E w \in WorkerIds : WorkerTaskDone(w)

LiveDispatch ==
    /\ InitDispatch
    /\ [][NextDispatchOK]_vars
    /\ WF_vars(DispatchMain)
    /\ \A w \in WorkerIds : WF_vars(WorkerOK(w))

\* threads are scheduled fairly; a post call returns or raises
LiveDispatchRaise ==
    /\ InitDispatch
    /\ [][NextDispatch]_vars
    /\ WF_vars(DispatchMain)
    /\ \A w \in WorkerIds : WF_vars(WorkerOK(w))

\* ------------------------------------------------------------ Sympa session
\* the pages the server can answer with: whether the page offers the logout
\* action, and the list names its sidebar links to
LoginPages == [action_logout : BOOLEAN, links : SUBSET ListNames]

\* __logged_in: 'action_logout' in page.text
LoggedIn(pg) == pg.action_logout

\* the part of a session call that touches nothing of a MailingList
SessionFrame ==
    UNCHANGED <<requests, pc, di, wpc, wdata, handed, posted, rvars, lvars, remote,
                upc, ulog, sub_given, sub_made, sub_error>>

\* log_in(populate) posts the credentials; the server accepts them or not
LogIn ==
    /\ spc = "idle"
    /\ \E pg \in LoginPages : \E pop \in BOOLEAN :
        /\ login' = pg
        /\ logged_in' = pg.action_logout
        /\ populate' = pop
    /\ sop' = "log_in"
    /\ spc' = "li_check"
    /\ stderr' = ""
    /\ updates' = [n \in ListNames |-> <<>>]
    /\ UNCHANGED <<lists, names, ppc, pname, concurrent, q, unfinished_tasks>>
    /\ SessionFrame

\* log_in without the __logged_in check
LogInCheckMutNoCheck ==
    /\ spc = "li_check"
    /\ lists' = login.links
    /\ spc' = IF populate THEN "p_start" ELSE "returned"
    /\ UNCHANGED stderr
    /\ UNCHANGED <<login, populate, names, ppc, pname, updates, sop, logged_in,
                   concurrent, q, unfinished_tasks>>
    /\ SessionFrame

\* log_in after the post: not logged in -> a message on stderr and nothing
\* else; logged in -> __get_list_names, and __populate_all_lists if populate
LogInCheck ==
    /\ spc = "li_check"
    /\ IF ~LoggedIn(login)
       THEN /\ stderr' = "Unable to log in"
            /\ spc' = "returned"
            /\ UNCHANGED lists
       ELSE /\ lists' = login.links
            /\ spc' = IF populate THEN "p_start" ELSE "returned"
            /\ UNCHANGED stderr
    /\ UNCHANGED <<login, populate, names, ppc, pname, updates, sop, logged_in,
                   concurrent, q, unfinished_tasks>>
    /\ SessionFrame

\* populate_all fetches the home page
PopulateAll ==
    /\ spc = "idle"
    /\ \E pg \in LoginPages :
        /\ pg.action_logout = logged_in
        /\ login' = pg
    /\ sop' = "populate_all"
    /\ spc' = "pa_check"
    /\ stderr' = ""
    /\ updates' = [n \in ListNames |-> <<>>]
    /\ UNCHANGED <<lists, populate, names, ppc, pname, logged_in,
                   concurrent, q, unfinished_tasks>>
    /\ SessionFrame

\* populate_all after the fetch: __populate_all(page) or a message on stderr
PopulateAllCheck ==
    /\ spc = "pa_check"
    /\ IF LoggedIn(login)
       THEN /\ lists' = login.links
            /\ spc' = "p_start"
            /\ UNCHANGED stderr
       ELSE /\ stderr' = "Cannot populate lists, not logged in!"
            /\ spc' = "returned"
            /\ UNCHANGED lists
    /\ UNCHANGED <<login, populate, names, ppc, pname, updates, sop, logged_in,
                   concurrent, q, unfinished_tasks>>
    /\ SessionFrame

\* __populate_all_lists: q = Queue(concurrent * 2) and the loop that starts
\* `concurrent` daemon threads (they block on the empty queue)
PopulateStart ==
    /\ spc = "p_start"
    /\ q' = <<>>
    /\ unfinished_tasks' = 0
    /\ ppc' = [w \in WorkerIds |-> IF w <= concurrent THEN "get" ELSE "unstarted"]
    /\ pname' = [w \in WorkerIds |-> 0]
    /\ names' = SortedSeq(lists)
    /\ spc' = "p_put"
    /\ UNCHANGED <<lists, login, populate, updates, stderr, sop, logged_in, concurrent>>
    /\ SessionFrame

\* for name, l in self.lists.items(): q.put(name) -- blocks while the queue
\* is full
PopulatePut ==
    /\ spc = "p_put"
    /\ names # <<>>
    /\ Len(q) < concurrent * 2
    /\ q' = Append(q, Head(names))
    /\ unfinished_tasks' = unfinished_tasks + 1
    /\ names' = Tail(names)
    /\ UNCHANGED <<lists, spc, login, populate, ppc, pname, updates, stderr, sop,
                   logged_in, concurrent>>
    /\ SessionFrame

\* q.join(), then the call returns
PopulateJoin ==
    /\ spc = "p_put"
    /\ names = <<>>
    /\ unfinished_tasks = 0
    /\ spc' = "returned"
    /\ UNCHANGED <<lists, login, populate, names, ppc, pname, updates, stderr, sop,
                   logged_in, concurrent, q, unfinished_tasks>>
    /\ SessionFrame

\* a populate thread that reads the head of the queue and leaves it there
PopulateGetMutPeek(w) ==
    /\ ppc[w] = "get"
    /\ q # <<>>
    /\ pname' = [pname EXCEPT ![w] = Head(q)]
    /\ q' = q
    /\ ppc' = [ppc EXCEPT ![w] = "update"]
    /\ UNCHANGED <<lists, spc, login, populate, names, updates, stderr, sop,
                   logged_in, concurrent, unfinished_tasks>>
    /\ SessionFrame

\* populate(): name = q.get()
PopulateGet(w) ==
    /\ ppc[w] = "get"
    /\ q # <<>>
    /\ pname' = [pname EXCEPT ![w] = Head(q)]
    /\ q' = Tail(q)
    /\ ppc' = [ppc EXCEPT ![w] = "update"]
    /\ UNCHANGED <<lists, spc, login, populate, names, updates, stderr, sop,
                   logged_in, concurrent, unfinished_tasks>>
    /\ SessionFrame

\* populate(): self.lists[name].update() returns
PopulateUpdate(w) ==
    /\ ppc[w] = "update"
    /\ updates' = [updates EXCEPT ![pname[w]] = Append(@, w)]
    /\ ppc' = [ppc EXCEPT ![w] = "task_done"]
    /\ UNCHANGED <<lists, spc, login, populate, names, pname, stderr, sop,
                   logged_in, concurrent, q, unfinished_tasks>>
    /\ SessionFrame

\* populate(): q.task_done(), and around the loop
PopulateTaskDone(w) ==
    /\ ppc[w] = "task_done"
    /\ unfinished_tasks' = unfinished_tasks - 1
    /\ pname' = [pname EXCEPT ![w] = 0]
    /\ ppc' = [ppc EXCEPT ![w] = "get"]
    /\ UNCHANGED <<lists, spc, login, populate, names, updates, stderr, sop,
                   logged_in, concurrent, q>>
    /\ SessionFrame

\* log_out posts action=logout
LogOut ==
    /\ spc = "idle"
    /\ logged_in
    /\ logged_in' = FALSE
    /\ UNCHANGED <<lists, spc, login, populate, names, ppc, pname, updates, stderr,
                   sop, concurrent, q, unfinished_tasks>>
    /\ SessionFrame

\* the caller has the call's outcome and may make the next call
SessionReturn ==
    /\ spc = "returned"
    /\ spc' = "idle"
    /\ UNCHANGED <<lists, login, populate, names, ppc, pname, updates, stderr,
                   sop, logged_in, concurrent, q, unfinished_tasks>>
    /\ SessionFrame

InitSession ==
    /\ concurrent \in 1..MaxW
    /\ requests = <<>>
    /\ q = <<>>
    /\ unfinished_tasks = 0
    /\ pc = "idle"
    /\ di = 0
    /\ wpc = [w \in WorkerIds |-> "unstarted"]
    /\ wdata = [w \in WorkerIds |-> 0]
    /\ handed = <<>>
    /\ posted = <<>>
    /\ FreshList
    /\ NoSession
    /\ NoCallers
    /\ NoConstruction
    /\ remote = [members |-> {}, bouncers |-> {}, role |-> "Owner"]
    /\ subscribers = <<>>
    /\ desired = <<>>
    /\ rows = <<>>
    /\ before = <<>>
    /\ outcome = "init"

NextSession ==
    \/ LogIn
    \/ LogInCheck
    \/ PopulateAll
    \/ PopulateAllCheck
    \/ PopulateStart
    \/ PopulatePut
    \/ PopulateJoin
    \/ \E w \in WorkerIds : PopulateGet(w)
    \/ \E w \in WorkerIds : PopulateUpdate(w)
    \/ \E w \in WorkerIds : PopulateTaskDone(w)
    \/ LogOut
    \/ SessionReturn

SpecSession == InitSession /\ [][NextSession]_vars

\* ------------------------------------------------------------ dispatcher claims
StartedWorkers == 1..concurrent

\* C1: when __send_concurrent_requests returns, every payload has been handed
\* to the gateway post call and that call has returned, the W stop signals have
\* all been enqueued and consumed, and all W workers have terminated.
C1_ReturnImpliesAllDone ==
    pc = "d_done" =>
        /\ \A i \in 1..Len(requests) : handed[i] >= 1 /\ posted[i] = handed[i]
        /\ \A w \in StartedWorkers : wpc[w] = "exited"
        /\ unfinished_tasks = concurrent
        /\ q = <<>>

\* a dispatch with fewer workers than payloads has returned
C1_Witness ==
    /\ pc = "d_done"
    /\ concurrent < Len(requests)
    /\ concurrent > 1

\* C2: no payload is ever handed to the gateway twice, and when the dispatch
\* returns every payload has been posted exactly once.
C2_ExactlyOnce ==
    /\ \A i \in 1..Len(requests) : handed[i] <= 1 /\ posted[i] <= handed[i]
    /\ pc = "d_done" => \A i \in 1..Len(requests) : posted[i] = 1

\* a dispatch of more payloads than the queue capacity 2*W has returned
C2_Witness ==
    /\ pc = "d_done"
    /\ Len(requests) > QueueMaxsize(concurrent)

\* C3: with fair scheduling and post calls that return, every dispatch
\* eventually returns with every worker exited on a stop signal.
C3_DispatchTerminates ==
    <>(pc = "d_done" /\ \A w \in StartedWorkers : wpc[w] = "exited")

\* the calling thread is blocked in q.put on a full queue (N > 2*W)
C3_Witness ==
    /\ pc = "d_put"
    /\ di < Len(requests)
    /\ QueueFull
    /\ Len(requests) > QueueMaxsize(concurrent)

\* ====================================================== MailingList calls
Min(a, b) == IF a < b THEN a ELSE b

\* bool(Response) is Response.ok; bool(None) is False
Truthy(p) == p # NoPage /\ p.ok

\* Response.text of a fetched page
Text(p) == [role |-> p.role, table |-> p.table, rows |-> p.rows]

\* a staleness test that counts the interval's last instant as outdated
NeedsUpdateMutInclusive ==
    \/ review = NoPage
    \/ subscribers = <<>>
    \/ ~Truthy(review_bouncing)
    \/ age >= UpdateTicks

\* a staleness test that accepts an empty registry as populated
NeedsUpdateMutIgnoresEmpty ==
    LET outdated == age > UpdateTicks
    IN \/ review = NoPage
       \/ ~Truthy(review_bouncing)
       \/ outdated

\* __needs_update
NeedsUpdate ==
    LET outdated == age > UpdateTicks
    IN \/ review = NoPage
       \/ subscribers = <<>>
       \/ ~Truthy(review_bouncing)
       \/ outdated

\* check_admin: the role text of the cached review page names a privileged role
CheckAdmin(p) == p.role \in PRIV_ROLES

\* the methods MailingList_Meta wraps (ADMIN_METHODS), without the two
\* *_email_list methods, which only call get_subscribers / get_bouncing
ADMIN_METHODS == {"get_subscribers", "get_bouncing", "set_subscribers",
                  "add_subscriber", "remove_subscriber", "reset_bouncing",
                  "reset_bouncing_subscriber", "remove_bouncing_subscribers"}

\* the calls a client can make: update() and the wrapped methods
Calls ==
    [name : {"update", "set_subscribers", "reset_bouncing",
             "remove_bouncing_subscribers", "get_subscribers", "get_bouncing"},
     email : {0}]
    \cup
    [name : {"add_subscriber", "remove_subscriber", "reset_bouncing_subscriber"},
     email : ListEmails]

\* the desired dicts the calls of set_subscribers pass: emails in ascending
\* order, one name
CallDesired ==
    {d \in DesiredDicts :
        /\ Keys(d) \subseteq ListEmails
        /\ \A i \in 1..Len(d) : d[i].name = RemoteInfo.name
        /\ \A i, j \in 1..Len(d) : i < j => d[i].email < d[j].email}

\* the pool size of a dispatch started by a call
PoolSize == Min(MAX_CONCURRENT_REQUEST_THREADS, MaxW)

\* what the method returns when its body runs to the end
BodyResult(o) ==
    IF o.name \in {"add_subscriber", "remove_subscriber", "reset_bouncing_subscriber"}
    THEN "response"
    ELSE None

\* the dispatcher's locals outside a dispatch
DispatchLocalsGone ==
    /\ concurrent' = MAX_CONCURRENT_REQUEST_THREADS
    /\ requests' = <<>>
    /\ q' = <<>>
    /\ unfinished_tasks' = 0
    /\ di' = 0
    /\ wpc' = [w \in WorkerIds |-> "unstarted"]
    /\ wdata' = [w \in WorkerIds |-> 0]
    /\ handed' = <<>>
    /\ posted' = <<>>

\* an __update_from_review that never polls: the rebuild uses the cached page
EnterUpdateFromReviewMutNoWait(wait_for_update) ==
    /\ page' = review
    /\ deadline' = 0
    /\ pc' = "ufr_pass"

\* entering __update_from_review: page = self.review; with wait_for_update the
\* timeout is now + TIMEOUT
EnterUpdateFromReview(wait_for_update) ==
    /\ page' = review
    /\ deadline' = IF wait_for_update THEN TimeoutTicks ELSE 0
    /\ pc' = IF wait_for_update THEN "ufr_poll" ELSE "ufr_pass"

\* entering __update_from_review_bouncing: page = self.review_bouncing
EnterUpdateFromReviewBouncing(wait_for_update) ==
    /\ page' = review_bouncing
    /\ deadline' = IF wait_for_update THEN TimeoutTicks ELSE 0
    /\ pc' = IF wait_for_update THEN "ufb_poll" ELSE "ufb_pass"

\* a metaclass that wraps the mutating methods only: the read accessors run
\* their body without the check of self._admin
AfterUpdateMutAccessorsOpen ==
    /\ pc' = IF op.name = "update" THEN "returned"
             ELSE IF op.name \in {"get_subscribers", "get_bouncing"} THEN "body"
             ELSE "gate"
    /\ result' = None

\* update() is over: update() itself returns, a wrapped method goes to the gate
AfterUpdate ==
    /\ pc' = IF op.name = "update" THEN "returned" ELSE "gate"
    /\ result' = None

\* a client calls update() or a wrapped method: the wrapper calls self.update()
Call ==
    \E o \in Calls : \E d \in CallDesired :
        /\ pc = "idle"
        /\ o.name # "set_subscribers" => d = <<>>
        /\ op' = o
        /\ desired' = d
        /\ phase' = "update"
        /\ pc' = "u_check"
        /\ log' = <<>>
        /\ UNCHANGED <<review, review_bouncing, admin, age, result, page, deadline>>
        /\ UNCHANGED <<concurrent, requests, q, unfinished_tasks, di, wpc, wdata,
                       handed, posted>>
        /\ UNCHANGED <<subscribers, rows, before, outcome, remote, svars>>

\* an update() that refreshes whatever __needs_update says
UpdateCheckMutAlwaysRefresh ==
    /\ pc = "u_check"
    /\ pc' = "u_get_review"
    /\ log' = Append(log, "needs_update")
    /\ UNCHANGED result
    /\ UNCHANGED <<review, review_bouncing, admin, age, op, phase, page, deadline>>
    /\ UNCHANGED <<concurrent, requests, q, unfinished_tasks, di, wpc, wdata,
                   handed, posted>>
    /\ UNCHANGED <<rvars, remote, svars>>

\* update(): if self.__needs_update()
UpdateCheck ==
    /\ pc = "u_check"
    /\ IF NeedsUpdate
       THEN /\ pc' = "u_get_review"
            /\ log' = Append(log, "needs_update")
            /\ UNCHANGED result
       ELSE /\ AfterUpdate
            /\ log' = Append(log, "fresh")
    /\ UNCHANGED <<review, review_bouncing, admin, age, op, phase, page, deadline>>
    /\ UNCHANGED <<concurrent, requests, q, unfinished_tasks, di, wpc, wdata,
                   handed, posted>>
    /\ UNCHANGED <<rvars, remote, svars>>

\* update(): self.__get_review()
GetReview ==
    /\ pc = "u_get_review"
    /\ review' = RenderReview(remote)
    /\ log' = Append(log, "GET review")
    /\ pc' = "u_get_bouncing"
    /\ UNCHANGED <<review_bouncing, admin, age, op, phase, result, page, deadline>>
    /\ UNCHANGED <<concurrent, requests, q, unfinished_tasks, di, wpc, wdata,
                   handed, posted>>
    /\ UNCHANGED <<rvars, remote, svars>>

\* update(): self.__get_review_bouncing()
GetReviewBouncing ==
    \E status \in BOOLEAN :
        /\ pc = "u_get_bouncing"
        /\ review_bouncing' = RenderBouncing(remote, status)
        /\ log' = Append(log, "GET reviewbouncing")
        /\ pc' = "u_check_admin"
        /\ UNCHANGED <<review, admin, age, op, phase, result, page, deadline>>
        /\ UNCHANGED <<concurrent, requests, q, unfinished_tasks, di, wpc, wdata,
                       handed, posted>>
        /\ UNCHANGED <<rvars, remote, svars>>

\* an update() that fetches the pages but keeps the privilege flag it had
CheckAdminStepMutKeepFlag ==
    /\ pc = "u_check_admin"
    /\ log' = Append(log, "check_admin")
    /\ EnterUpdateFromReview(FALSE)
    /\ UNCHANGED <<review, review_bouncing, admin, age, op, phase, result>>
    /\ UNCHANGED <<concurrent, requests, q, unfinished_tasks, di, wpc, wdata,
                   handed, posted>>
    /\ UNCHANGED <<rvars, remote, svars>>

\* update(): self.__check_admin(), then __update_subscribers() is entered
CheckAdminStep ==
    /\ pc = "u_check_admin"
    /\ admin' = CheckAdmin(review)
    /\ log' = Append(log, "check_admin")
    /\ EnterUpdateFromReview(FALSE)
    /\ UNCHANGED <<review, review_bouncing, age, op, phase, result>>
    /\ UNCHANGED <<concurrent, requests, q, unfinished_tasks, di, wpc, wdata,
                   handed, posted>>
    /\ UNCHANGED <<rvars, remote, svars>>

\* a review poll that treats the passing of its deadline as an error
PollReviewMutRaiseOnTimeout ==
    /\ pc = "ufr_poll"
    /\ IF deadline > 0
       THEN /\ review' = RenderReview(remote)
            /\ log' = Append(log, "GET review")
            /\ IF Text(review') # Text(page)
               THEN /\ pc' = "ufr_pass"
                    /\ UNCHANGED <<deadline, age>>
               ELSE /\ pc' = pc
                    /\ deadline' = deadline - 1
                    /\ age' = Min(age + 1, AgeCap)
            /\ UNCHANGED result
       ELSE /\ pc' = "returned"
            /\ result' = "Timeout"
            /\ UNCHANGED <<review, log, deadline, age>>
    /\ UNCHANGED <<review_bouncing, admin, op, phase, page>>
    /\ UNCHANGED <<concurrent, requests, q, unfinished_tasks, di, wpc, wdata,
                   handed, posted>>
    /\ UNCHANGED <<rvars, remote, svars>>

\* a review poll that stops after its first fetch whatever it fetched
PollReviewMutStopAtFirst ==
    /\ pc = "ufr_poll"
    /\ IF deadline > 0
       THEN /\ review' = RenderReview(remote)
            /\ log' = Append(log, "GET review")
       ELSE UNCHANGED <<review, log>>
    /\ pc' = "ufr_pass"
    /\ UNCHANGED <<review_bouncing, admin, age, op, phase, result, page, deadline>>
    /\ UNCHANGED <<concurrent, requests, q, unfinished_tasks, di, wpc, wdata,
                   handed, posted>>
    /\ UNCHANGED <<rvars, remote, svars>>

\* __update_from_review, one turn of "while datetime.now() < timeout":
\* fetch, compare the text with the snapshot, break or sleep
PollReview ==
    /\ pc = "ufr_poll"
    /\ IF deadline > 0
       THEN /\ review' = RenderReview(remote)
            /\ log' = Append(log, "GET review")
            /\ IF Text(review') # Text(page)
               THEN /\ pc' = "ufr_pass"
                    /\ UNCHANGED <<deadline, age>>
               ELSE /\ pc' = pc
                    /\ deadline' = deadline - 1
                    /\ age' = Min(age + 1, AgeCap)
       ELSE /\ pc' = "ufr_pass"
            /\ UNCHANGED <<review, log, deadline, age>>
    /\ UNCHANGED <<review_bouncing, admin, op, phase, result, page>>
    /\ UNCHANGED <<concurrent, requests, q, unfinished_tasks, di, wpc, wdata,
                   handed, posted>>
    /\ UNCHANGED <<rvars, remote, svars>>

\* a rebuild from the review page that recomputes the privilege flag as well
ReviewPassStepMutRechecksAdmin ==
    /\ pc = "ufr_pass"
    /\ subscribers' = UpdateSubscribersFromRoot(subscribers, review)
    /\ admin' = CheckAdmin(review)
    /\ log' = Append(log, "review_pass")
    /\ EnterUpdateFromReviewBouncing(phase = "body")
    /\ UNCHANGED <<review, review_bouncing, age, op, phase, result>>
    /\ UNCHANGED <<concurrent, requests, q, unfinished_tasks, di, wpc, wdata,
                   handed, posted>>
    /\ UNCHANGED <<desired, rows, before, outcome, remote, svars>>

\* __update_from_review, lines 129-130: the registry is rebuilt from
\* self.review; then __update_from_review_bouncing is entered
ReviewPassStep ==
    /\ pc = "ufr_pass"
    /\ subscribers' = UpdateSubscribersFromRoot(subscribers, review)
    /\ log' = Append(log, "review_pass")
    /\ EnterUpdateFromReviewBouncing(phase = "body")
    /\ UNCHANGED <<review, review_bouncing, admin, age, op, phase, result>>
    /\ UNCHANGED <<concurrent, requests, q, unfinished_tasks, di, wpc, wdata,
                   handed, posted>>
    /\ UNCHANGED <<desired, rows, before, outcome, remote, svars>>

\* __update_from_review_bouncing, one turn of the loop: fetch, compare
\* self.review with the snapshot of the bouncing page (line 143), break or sleep
PollBouncing ==
    \E status \in BOOLEAN :
        /\ pc = "ufb_poll"
        /\ IF deadline > 0
           THEN /\ review_bouncing' = RenderBouncing(remote, status)
                /\ log' = Append(log, "GET reviewbouncing")
                /\ IF review # page
                   THEN /\ pc' = "ufb_pass"
                        /\ UNCHANGED <<deadline, age>>
                   ELSE /\ pc' = pc
                        /\ deadline' = deadline - 1
                        /\ age' = Min(age + 1, AgeCap)
           ELSE /\ pc' = "ufb_pass"
                /\ UNCHANGED <<review_bouncing, log, deadline, age>>
        /\ UNCHANGED <<review, admin, op, phase, result, page>>
        /\ UNCHANGED <<concurrent, requests, q, unfinished_tasks, di, wpc, wdata,
                       handed, posted>>
        /\ UNCHANGED <<rvars, remote, svars>>

\* __update_from_review_bouncing, lines 147-148: the bouncing pass; a KeyError
\* leaves the call; reset_bouncing and reset_bouncing_subscriber return here,
\* __update_subscribers goes on to set the timestamp
BouncingPassStep ==
    LET r == UpdateBouncingFromRoot(subscribers, review_bouncing)
    IN /\ pc = "ufb_pass"
       /\ subscribers' = r.subs
       /\ log' = Append(log, "bouncing_pass")
       /\ IF r.raised
          THEN /\ pc' = "returned"
               /\ result' = "KeyError"
          ELSE IF phase = "body"
                  /\ op.name \in {"reset_bouncing", "reset_bouncing_subscriber"}
          THEN /\ pc' = "returned"
               /\ result' = BodyResult(op)
          ELSE /\ pc' = "stamp"
               /\ UNCHANGED result
       /\ UNCHANGED <<review, review_bouncing, admin, age, op, phase, page, deadline>>
       /\ UNCHANGED <<concurrent, requests, q, unfinished_tasks, di, wpc, wdata,
                      handed, posted>>
       /\ UNCHANGED <<desired, rows, before, outcome, remote, svars>>

\* __update_subscribers, line 91: self._last_updated = datetime.now()
Stamp ==
    /\ pc = "stamp"
    /\ age' = 0
    /\ log' = Append(log, "stamp")
    /\ IF phase = "update"
       THEN AfterUpdate
       ELSE IF phase = "nested"
       THEN /\ pc' = "n_gate"
            /\ UNCHANGED result
       ELSE /\ pc' = "returned"
            /\ result' = BodyResult(op)
    /\ UNCHANGED <<review, review_bouncing, admin, op, phase, page, deadline>>
    /\ UNCHANGED <<concurrent, requests, q, unfinished_tasks, di, wpc, wdata,
                   handed, posted>>
    /\ UNCHANGED <<rvars, remote, svars>>

\* a wrapper that runs the method whatever self._admin says
GateMutNoCheck ==
    /\ pc = "gate"
    /\ pc' = "body"
    /\ phase' = "body"
    /\ log' = Append(log, "admin")
    /\ UNCHANGED <<review, review_bouncing, admin, age, op, result, page, deadline>>
    /\ UNCHANGED <<concurrent, requests, q, unfinished_tasks, di, wpc, wdata,
                   handed, posted>>
    /\ UNCHANGED <<rvars, remote, svars>>

\* check_populated_before_exec after self.update(): if self._admin
Gate ==
    /\ pc = "gate"
    /\ IF admin
       THEN /\ pc' = "body"
            /\ phase' = "body"
            /\ log' = Append(log, "admin")
            /\ UNCHANGED result
       ELSE /\ pc' = "returned"
            /\ result' = None
            /\ log' = Append(log, "denied")
            /\ UNCHANGED phase
    /\ UNCHANGED <<review, review_bouncing, admin, age, op, page, deadline>>
    /\ UNCHANGED <<concurrent, requests, q, unfinished_tasks, di, wpc, wdata,
                   handed, posted>>
    /\ UNCHANGED <<rvars, remote, svars>>

\* entering __send_concurrent_requests(reqs)
EnterDispatch(reqs) ==
    /\ requests' = reqs
    /\ concurrent' = PoolSize
    /\ q' = <<>>
    /\ unfinished_tasks' = 0
    /\ pc' = "d_start"
    /\ di' = 0
    /\ wpc' = [w \in WorkerIds |-> "unstarted"]
    /\ wdata' = [w \in WorkerIds |-> 0]
    /\ handed' = [i \in 1..Len(reqs) |-> 0]
    /\ posted' = [i \in 1..Len(reqs) |-> 0]

\* add_subscriber / remove_subscriber: one post on the calling thread, then
\* __update_subscribers(wait_for_update=True)
BodyAddRemoveSubscriber ==
    /\ pc = "body"
    /\ op.name \in {"add_subscriber", "remove_subscriber"}
    /\ remote' = ApplyPost(remote, IF op.name = "add_subscriber"
                                   THEN AddRequest(op.email, "")
                                   ELSE RemoveRequest(op.email))
    /\ log' = Append(log, "POST")
    /\ EnterUpdateFromReview(TRUE)
    /\ UNCHANGED <<review, review_bouncing, admin, age, op, phase, result>>
    /\ UNCHANGED <<concurrent, requests, q, unfinished_tasks, di, wpc, wdata,
                   handed, posted>>
    /\ UNCHANGED <<rvars, svars>>

\* reset_bouncing_subscriber: one post, then
\* __update_from_review_bouncing(wait_for_update=True)
BodyResetBouncingSubscriber ==
    /\ pc = "body"
    /\ op.name = "reset_bouncing_subscriber"
    /\ remote' = ApplyPost(remote, ResetRequest(op.email))
    /\ log' = Append(log, "POST")
    /\ EnterUpdateFromReviewBouncing(TRUE)
    /\ UNCHANGED <<review, review_bouncing, admin, age, op, phase, result>>
    /\ UNCHANGED <<concurrent, requests, q, unfinished_tasks, di, wpc, wdata,
                   handed, posted>>
    /\ UNCHANGED <<rvars, svars>>

\* a set_subscribers that dispatches and refreshes whatever the diff is
BodySetSubscribersMutNoGuard ==
    /\ pc = "body"
    /\ op.name = "set_subscribers"
    /\ EnterDispatch(SetSubscribersRequests(subscribers, desired))
    /\ log' = Append(log, "pool")
    /\ UNCHANGED <<review, review_bouncing, admin, age, op, phase, page,
                   deadline, result>>
    /\ UNCHANGED <<rvars, remote, svars>>

\* set_subscribers: the diff; "if requests:" dispatch them, then refresh
BodySetSubscribers ==
    /\ pc = "body"
    /\ op.name = "set_subscribers"
    /\ LET reqs == SetSubscribersRequests(subscribers, desired)
       IN IF reqs # <<>>
          THEN /\ EnterDispatch(reqs)
               /\ log' = Append(log, "pool")
               /\ UNCHANGED result
          ELSE /\ pc' = "returned"
               /\ result' = None
               /\ UNCHANGED <<concurrent, requests, q, unfinished_tasks, di, wpc,
                              wdata, handed, posted, log>>
    /\ UNCHANGED <<review, review_bouncing, admin, age, op, phase, page, deadline>>
    /\ UNCHANGED <<rvars, remote, svars>>

\* reset_bouncing / remove_bouncing_subscribers call self.get_bouncing(), a
\* wrapped method: its wrapper calls self.update() again
BodyCallGetBouncing ==
    /\ pc = "body"
    /\ op.name \in {"reset_bouncing", "remove_bouncing_subscribers"}
    /\ phase' = "nested"
    /\ IF NeedsUpdate
       THEN /\ pc' = "u_get_review"
            /\ log' = Append(log, "needs_update")
       ELSE /\ pc' = "n_gate"
            /\ log' = Append(log, "fresh")
    /\ UNCHANGED <<review, review_bouncing, admin, age, op, result, page, deadline>>
    /\ UNCHANGED <<concurrent, requests, q, unfinished_tasks, di, wpc, wdata,
                   handed, posted>>
    /\ UNCHANGED <<rvars, remote, svars>>

\* a batch with a payload for every entry of the registry, bouncing or not
BodyBouncingBatchMutAllEntries ==
    /\ pc = "n_gate"
    /\ op.name \in {"reset_bouncing", "remove_bouncing_subscribers"}
    /\ IF admin
       THEN /\ LET bouncing == KeyList(subscribers)
               IN EnterDispatch([i \in 1..Len(bouncing) |->
                      IF op.name = "reset_bouncing"
                      THEN ResetRequest(bouncing[i])
                      ELSE RemoveRequest(bouncing[i])])
            /\ phase' = "body"
            /\ log' = Append(log, "pool")
            /\ UNCHANGED result
       ELSE /\ pc' = "returned"
            /\ result' = "AttributeError"
            /\ log' = Append(log, "denied")
            /\ UNCHANGED <<concurrent, requests, q, unfinished_tasks, di, wpc,
                           wdata, handed, posted, phase>>
    /\ UNCHANGED <<review, review_bouncing, admin, age, op, page, deadline>>
    /\ UNCHANGED <<rvars, remote, svars>>

\* reset_bouncing / remove_bouncing_subscribers: the wrapper of get_bouncing
\* consults self._admin; with the dict, one request per bouncing subscriber is
\* dispatched, even when there is none; with None, .keys() raises
BodyBouncingBatch ==
    /\ pc = "n_gate"
    /\ op.name \in {"reset_bouncing", "remove_bouncing_subscribers"}
    /\ IF admin
       THEN /\ LET bouncing == KeyList(GetBouncing(subscribers))
               IN EnterDispatch([i \in 1..Len(bouncing) |->
                      IF op.name = "reset_bouncing"
                      THEN ResetRequest(bouncing[i])
                      ELSE RemoveRequest(bouncing[i])])
            /\ phase' = "body"
            /\ log' = Append(log, "pool")
            /\ UNCHANGED result
       ELSE /\ pc' = "returned"
            /\ result' = "AttributeError"
            /\ log' = Append(log, "denied")
            /\ UNCHANGED <<concurrent, requests, q, unfinished_tasks, di, wpc,
                           wdata, handed, posted, phase>>
    /\ UNCHANGED <<review, review_bouncing, admin, age, op, page, deadline>>
    /\ UNCHANGED <<rvars, remote, svars>>

\* get_subscribers / get_bouncing: the wrapped accessors return the dict
BodyGet ==
    /\ pc = "body"
    /\ op.name \in {"get_subscribers", "get_bouncing"}
    /\ pc' = "returned"
    /\ result' = IF op.name = "get_subscribers" THEN "subscribers" ELSE "bouncing"
    /\ UNCHANGED <<review, review_bouncing, admin, age, op, phase, log, page, deadline>>
    /\ UNCHANGED <<concurrent, requests, q, unfinished_tasks, di, wpc, wdata,
                   handed, posted>>
    /\ UNCHANGED <<rvars, remote, svars>>

\* a method that returns after its dispatch without refreshing the registry
DispatchReturnMutNoRefresh ==
    /\ pc = "d_done"
    /\ op.name \in {"set_subscribers", "reset_bouncing", "remove_bouncing_subscribers"}
    /\ DispatchLocalsGone
    /\ log' = Append(log, "dispatched")
    /\ pc' = "returned"
    /\ result' = None
    /\ UNCHANGED <<review, review_bouncing, admin, age, op, phase, page, deadline>>
    /\ UNCHANGED <<rvars, remote, svars>>

\* __send_concurrent_requests returns to set_subscribers, reset_bouncing or
\* remove_bouncing_subscribers, which refresh with wait_for_update=True
DispatchReturn ==
    /\ pc = "d_done"
    /\ op.name \in {"set_subscribers", "reset_bouncing", "remove_bouncing_subscribers"}
    /\ DispatchLocalsGone
    /\ log' = Append(log, "dispatched")
    /\ IF op.name = "reset_bouncing"
       THEN EnterUpdateFromReviewBouncing(TRUE)
       ELSE EnterUpdateFromReview(TRUE)
    /\ UNCHANGED <<review, review_bouncing, admin, age, op, phase, result>>
    /\ UNCHANGED <<rvars, remote, svars>>

\* the call is over; the caller has its result
Return ==
    /\ pc = "returned"
    /\ pc' = "idle"
    /\ op' = [name |-> "none", email |-> 0]
    /\ phase' = "none"
    /\ result' = None
    /\ log' = <<>>
    /\ page' = NoPage
    /\ deadline' = 0
    /\ desired' = <<>>
    /\ UNCHANGED <<review, review_bouncing, admin, age>>
    /\ UNCHANGED <<concurrent, requests, q, unfinished_tasks, di, wpc, wdata,
                   handed, posted>>
    /\ UNCHANGED <<subscribers, rows, before, outcome, remote, svars>>

\* ------------------------------------------------------------ environment
\* another user of the server changes the list, or the role of this user
\* changes, between two calls of this client
RemoteChange ==
    \E r \in RemoteStates :
        /\ pc = "idle"
        /\ \/ \E e \in ListEmails : /\ r.members \in {remote.members \cup {e},
                                                  remote.members \ {e}}
                              /\ r.bouncers = remote.bouncers \cap r.members
                              /\ r.role = remote.role
           \/ \E e \in remote.members : /\ r.bouncers \in {remote.bouncers \cup {e},
                                                          remote.bouncers \ {e}}
                                        /\ r.members = remote.members
                                        /\ r.role = remote.role
           \/ r.members = remote.members /\ r.bouncers = remote.bouncers
        /\ r # remote
        /\ remote' = r
        /\ UNCHANGED <<dvars, rvars, lvars, svars>>

\* the client does nothing for UPDATE_MINS minutes
Tick ==
    /\ pc = "idle"
    /\ age < AgeCap
    /\ age' = Min(age + UpdateTicks, AgeCap)
    /\ UNCHANGED <<review, review_bouncing, admin, op, phase, result, log, page, deadline>>
    /\ UNCHANGED <<dvars, rvars, remote, svars>>

\* MailingList.__init__, logged in to a server in any state
InitList ==
    /\ NoDispatch
    /\ NoSession
    /\ NoCallers
    /\ NoConstruction
    /\ FreshList
    /\ remote \in RemoteStates
    /\ subscribers = <<>>
    /\ desired = <<>>
    /\ rows = <<>>
    /\ before = <<>>
    /\ outcome = "init"

Next ==
    \/ Call
    \/ UpdateCheck
    \/ GetReview
    \/ GetReviewBouncing
    \/ CheckAdminStep
    \/ PollReview
    \/ ReviewPassStep
    \/ PollBouncing
    \/ BouncingPassStep
    \/ Stamp
    \/ Gate
    \/ BodyAddRemoveSubscriber
    \/ BodyResetBouncingSubscriber
    \/ BodySetSubscribers
    \/ BodyCallGetBouncing
    \/ BodyBouncingBatch
    \/ BodyGet
    \/ StartWorker
    \/ PutRequest
    \/ JoinQueue
    \/ PutStop
    \/ JoinThread
    \/ \E w \in WorkerIds : WorkerGet(w)
    \/ \E w \in WorkerIds : WorkerPostReturn(w)
    \/ \E w \in WorkerIds : WorkerTaskDone(w)
    \/ DispatchReturn
    \/ Return
    \/ RemoteChange
    \/ Tick

Spec == InitList /\ [][Next]_vars

\* the client is the only user of the server: nobody else changes the list or
\* the role of the client's user
NextSolo ==
    \/ Call
    \/ UpdateCheck
    \/ GetReview
    \/ GetReviewBouncing
    \/ CheckAdminStep
    \/ PollReview
    \/ ReviewPassStep
    \/ PollBouncing
    \/ BouncingPassStep
    \/ Stamp
    \/ Gate
    \/ BodyAddRemoveSubscriber
    \/ BodyResetBouncingSubscriber
    \/ BodySetSubscribers
    \/ BodyCallGetBouncing
    \/ BodyBouncingBatch
    \/ BodyGet
    \/ StartWorker
    \/ PutRequest
    \/ JoinQueue
    \/ PutStop
    \/ JoinThread
    \/ \E w \in WorkerIds : WorkerGet(w)
    \/ \E w \in WorkerIds : WorkerPostReturn(w)
    \/ \E w \in WorkerIds : WorkerTaskDone(w)
    \/ DispatchReturn
    \/ Return
    \/ Tick

SpecSolo == InitList /\ [][NextSolo]_vars

\* -------------------------------------------------------------- registry claims
Range(f) == {f[i] : i \in DOMAIN f}

\* C4: set_subscribers builds exactly one add payload (email with its desired
\* name) per desired email that is no registry key and exactly one remove
\* payload per registry key that is no desired email, adds first; an email in
\* both produces no payload whatever its names.
C4_ReconcileIsKeyDiff ==
    outcome = "reconcile" =>
        LET toAdd == Keys(desired) \ Keys(before)
            toRemove == Keys(before) \ Keys(desired)
        IN /\ Range(requests) =
                  {AddRequest(e, Lookup(desired, e).name) : e \in toAdd}
                      \cup {RemoveRequest(e) : e \in toRemove}
           /\ Len(requests) = Cardinality(toAdd) + Cardinality(toRemove)
           /\ \A i, j \in 1..Len(requests) :
                  (requests[i].action = "action_del" /\ requests[j].action = "action_add")
                      => j < i

\* an email in both sets whose desired name differs, beside one payload
C4_Witness ==
    /\ outcome = "reconcile"
    /\ Len(requests) = 1
    /\ \E e \in Keys(desired) \cap Keys(before) :
           Lookup(desired, e).name # Lookup(before, e).name

\* C9: after a review pass over rows R the registry's keys are exactly the
\* emails of R, each once (entries not in R are pruned from a registry that was
\* non-empty; an empty registry is filled with R).
C9_KeysAreRowEmails ==
    outcome = "review" =>
        /\ Keys(subscribers) = RowEmails(rows)
        /\ Len(subscribers) = Cardinality(RowEmails(rows))

\* a zero-row pass on a non-empty registry removed every entry
C9_Witness ==
    /\ outcome = "review"
    /\ before # <<>>
    /\ rows = <<>>
    /\ subscribers = <<>>

BounceFields(sub) == [key \in bouncing_info |-> sub[key]]

\* C10: a review pass keeps the bounce fields of every entry it merges into,
\* merging a row twice equals merging it once, and a second pass over the same
\* rows changes nothing.
C10_MergeIdempotentKeepsBounce ==
    outcome = "review" =>
        /\ \A e \in Keys(before) \cap Keys(subscribers) :
               BounceFields(Lookup(subscribers, e)) = BounceFields(Lookup(before, e))
        /\ \A i \in 1..Len(rows) :
               rows[i].email \in Keys(before) =>
                   LET once == UpdateSubscriberInfo(Lookup(before, rows[i].email), rows[i])
                   IN UpdateSubscriberInfo(once, rows[i]) = once
        /\ RowsToSubscribers(subscribers, rows) = subscribers

\* a bouncing entry was merged with a row that changed its name
C10_Witness ==
    /\ outcome = "review"
    /\ \E e \in Keys(before) \cap Keys(subscribers) :
           /\ Lookup(before, e).bouncing
           /\ Lookup(subscribers, e).bouncing
           /\ Lookup(subscribers, e).name # Lookup(before, e).name

\* C11: after a bounce pass every registry entry that has no row in the pass
\* carries the not-bouncing defaults, and after a pass with zero rows
\* get_bouncing() is empty.
C11_BouncePassResets ==
    outcome = "bouncing" =>
        /\ \A i \in 1..Len(subscribers) :
               subscribers[i].email \notin RowEmails(rows)
                   => BounceFields(subscribers[i]) = BounceFields(DefaultBouncing)
        /\ rows = <<>> => GetBouncing(subscribers) = <<>>

\* C12: a bounce pass never raises: a row whose email is no registry key is
\* skipped and every row whose email is a key is applied.
C12_UnknownBounceRowSkipped ==
    outcome \in {"bouncing", "KeyError"} =>
        /\ outcome = "bouncing"
        /\ \A i \in 1..Len(rows) :
               rows[i].email \in Keys(subscribers)
                   => Lookup(subscribers, rows[i].email).bouncing

\* ------------------------------------------------------------ list claims
\* the wrapped methods that post to the server
MutatingOps == {"add_subscriber", "remove_subscriber", "set_subscribers",
                "reset_bouncing", "reset_bouncing_subscriber",
                "remove_bouncing_subscribers"}

Last(s) == s[Len(s)]

\* C5: when the desired key set equals the registry's key set, set_subscribers
\* returns None straight after the gate: no pool is started, nothing is posted,
\* no page is fetched, and the registry, the cached pages, the timestamp and the
\* server's list stay as they are.
C5_EqualKeysDoNothing ==
    [][(pc = "body" /\ op.name = "set_subscribers"
            /\ Keys(desired) = Keys(subscribers))
        => /\ pc' = "returned"
           /\ result' = None
           /\ log' = log
           /\ UNCHANGED <<subscribers, review, review_bouncing, admin, age, remote>>
           /\ UNCHANGED <<concurrent, requests, q, unfinished_tasks, wpc, wdata,
                          handed, posted>>]_vars

\* a set_subscribers of a non-empty dict with the registry's keys has returned
C5_Witness ==
    /\ pc = "returned"
    /\ op.name = "set_subscribers"
    /\ phase = "body"
    /\ desired # <<>>
    /\ Keys(desired) = Keys(subscribers)
    /\ Last(log) = "admin"

\* C6: a wrapped mutating method whose privilege flag is false after the
\* wrapper's update() never runs its body: the call returns None from the gate
\* with nothing posted, no pool started and no page fetched, and no body of a
\* mutating method ever runs with the flag false.
C6_DeniedRunsNoBody ==
    /\ []((op.name \in MutatingOps /\ phase \in {"body", "nested"}) => admin)
    /\ [][(pc = "gate" /\ op.name \in MutatingOps /\ ~admin)
           => /\ pc' = "returned"
              /\ result' = None
              /\ phase' = "update"
              /\ log' = Append(log, "denied")
              /\ UNCHANGED <<subscribers, review, review_bouncing, admin, age,
                             remote>>
              /\ UNCHANGED <<concurrent, requests, q, unfinished_tasks, wpc,
                             wdata, handed, posted>>]_vars

\* a mutating call of a user without privileges has been denied
C6_Witness ==
    /\ pc = "returned"
    /\ op.name \in MutatingOps
    /\ ~admin
    /\ log # <<>>
    /\ Last(log) = "denied"
    /\ result = None

\* what the update() of the wrapper now at its gate has done: the events of the
\* call, for the wrapper of a get_bouncing called by a method body those after
\* the outer gate
UpdateLog ==
    IF pc = "n_gate"
    THEN LET g == CHOOSE i \in 1..Len(log) : log[i] = "admin"
         IN SubSeq(log, g + 1, Len(log))
    ELSE log

\* C7 as stated: whenever a wrapped method consults the privilege flag, its
\* wrapper has fetched the review page and recomputed the flag after the fetch.
C7_Original ==
    (pc \in {"gate", "n_gate"}) =>
        \E i, j \in 1..Len(UpdateLog) :
            i < j /\ UpdateLog[i] = "GET review" /\ UpdateLog[j] = "check_admin"

\* C7 amended: when a wrapped method consults the privilege flag, its update()
\* has either found the list fresh (a review page, a non-empty registry and a
\* usable bounce page cached, and not more than UPDATE_MINS since the last
\* refresh) and fetched nothing, or has fetched both pages, recomputed the flag
\* from the review page it fetched, rebuilt the registry and set the timestamp.
C7_GateAfterUpdate ==
    (pc \in {"gate", "n_gate"}) =>
        \/ /\ UpdateLog = <<"fresh">>
           /\ review # NoPage
           /\ subscribers # <<>>
           /\ review_bouncing # NoPage
           /\ review_bouncing.ok
           /\ age <= UpdateTicks
        \/ /\ UpdateLog = <<"needs_update", "GET review", "GET reviewbouncing",
                            "check_admin", "review_pass", "bouncing_pass",
                            "stamp">>
           /\ review = RenderReview(remote)
           /\ admin = (review.role \in PRIV_ROLES)
           /\ age = 0

\* the flag is consulted without a fetch although the user's role on the
\* server is no longer the one the flag was computed from
C7_Witness ==
    /\ pc = "gate"
    /\ log = <<"fresh">>
    /\ admin
    /\ remote.role \notin PRIV_ROLES

\* C8: update() refreshes exactly when no review page is cached, or the
\* registry is empty, or no usable bounce page is cached, or more than
\* UPDATE_MINS minutes have passed since the last refresh; the test itself
\* changes neither the list nor the server.
C8_NeedsRefreshIff ==
    [][(pc = "u_check")
        => /\ (pc' = "u_get_review") <=>
                  \/ review = NoPage
                  \/ subscribers = <<>>
                  \/ review_bouncing = NoPage
                  \/ ~review_bouncing.ok
                  \/ age * FREQUENCY > UPDATE_MINS * 60
           /\ UNCHANGED <<subscribers, review, review_bouncing, admin, age, remote>>]_vars

\* exactly UPDATE_MINS after the last refresh the list was found fresh
C8_Witness ==
    /\ pc = "gate"
    /\ log = <<"fresh">>
    /\ age * FREQUENCY = UPDATE_MINS * 60

\* ------------------------------------------------------------ refresh claims
\* the write of the running call: its single post, or the return of its dispatch
Writes == {"POST", "dispatched"}

\* how many fetches of one page the call has made since its write
PollFetches(get) ==
    LET w == CHOOSE i \in 1..Len(log) : log[i] \in Writes
    IN Cardinality({i \in (w + 1)..Len(log) : log[i] = get})

\* C13: the review poll fetches once per turn and sleeps one interval after
\* every fetch whose text equals the snapshot taken before polling; it goes on
\* to the rebuild only after a fetch whose text differs or after the fetch of
\* the last turn before the deadline.
C13_ReviewPollUntilChanged ==
    /\ (pc = "ufr_poll") =>
           LET k == PollFetches("GET review")
           IN /\ k = TimeoutTicks - deadline
              /\ k > 0 => Text(review) = Text(page)
    /\ (pc = "ufr_pass" /\ phase = "body") =>
           LET k == PollFetches("GET review")
           IN /\ k >= 1
              /\ Text(review) = Text(page) => k = TimeoutTicks
              /\ Text(review) # Text(page) => k = TimeoutTicks - deadline + 1

\* the poll is in its third turn: two fetches returned the snapshot's text
C13_Witness ==
    /\ pc = "ufr_poll"
    /\ PollFetches("GET review") = 2
    /\ Text(review) = Text(page)
    /\ deadline = TimeoutTicks - 2

\* C14: the bounce poll fetches once per turn and sleeps one interval after
\* every fetch that returned the bounce page of the snapshot; it goes on to the
\* bounce pass only after a fetch that returned a different bounce page or
\* after the fetch of the last turn before the deadline.
C14_BouncePollUntilChanged ==
    /\ (pc = "ufb_poll") =>
           LET k == PollFetches("GET reviewbouncing")
           IN /\ k = TimeoutTicks - deadline
              /\ k > 0 => review_bouncing = page
    /\ (pc = "ufb_pass" /\ phase = "body") =>
           LET k == PollFetches("GET reviewbouncing")
           IN /\ k >= 1
              /\ review_bouncing = page => k = TimeoutTicks

\* the wrapped methods that end with __update_subscribers(wait_for_update=True)
FullRefreshOps == {"add_subscriber", "remove_subscriber", "set_subscribers",
                   "remove_bouncing_subscribers"}

\* C15: however the review poll ended, by a changed page or by its deadline,
\* nothing is raised, the cached review page is the page last fetched, the
\* registry has been rebuilt from it (its keys are that page's row emails), and
\* add_subscriber / remove_subscriber return the response of their post.
C15_TimeoutIsNoError ==
    /\ (pc = "ufb_poll" /\ phase = "body" /\ op.name \in FullRefreshOps) =>
           /\ Last(log) = "review_pass"
           /\ PollFetches("GET review") >= 1
           /\ review = RenderReview(remote)
           /\ Keys(subscribers) = RowEmails(review.rows)
           /\ result = None
    /\ (pc = "returned" /\ phase = "body"
            /\ op.name \in {"add_subscriber", "remove_subscriber"}) =>
           /\ result = "response"
           /\ Last(log) = "stamp"

\* a write that leaves the page as it was (adding an address that is a member
\* already): the poll fetched in every turn up to its deadline and the registry
\* was rebuilt from the last page fetched all the same
C15_Witness ==
    /\ pc = "ufb_poll"
    /\ op.name \in {"add_subscriber", "remove_subscriber"}
    /\ Last(log) = "review_pass"
    /\ PollFetches("GET review") = TimeoutTicks
    /\ review = RenderReview(remote)
    /\ subscribers # <<>>
    /\ Keys(subscribers) = remote.members

\* the wrapped methods that write through __send_concurrent_requests
BatchOps == {"set_subscribers", "reset_bouncing", "remove_bouncing_subscribers"}

\* the position of an event in the log of the running call (0: not there)
LogIndex(ev) ==
    IF \E i \in 1..Len(log) : log[i] = ev
    THEN CHOOSE i \in 1..Len(log) : log[i] = ev /\ \A j \in (i + 1)..Len(log) : log[j] # ev
    ELSE 0

\* C16: while a batch is being dispatched nothing is fetched; the dispatch
\* returns with every payload posted and every worker stopped; and every
\* registry rebuild after the batch parses a page fetched after that return,
\* the review page being the server's page after all writes.
C16_DispatchBeforeRefresh ==
    (op.name \in BatchOps /\ LogIndex("pool") > 0) =>
        /\ LogIndex("dispatched") = 0 =>
               /\ Last(log) = "pool"
               /\ pc \in {"d_start", "d_put", "d_join", "d_stop", "d_tjoin", "d_done"}
        /\ pc = "d_done" =>
               /\ \A i \in 1..Len(requests) : posted[i] = 1
               /\ \A w \in StartedWorkers : wpc[w] = "exited"
        /\ LogIndex("review_pass") > LogIndex("pool") =>
               /\ LogIndex("dispatched") > LogIndex("pool")
               /\ LogIndex("GET review") > LogIndex("dispatched")
               /\ LogIndex("GET review") < LogIndex("review_pass")
               /\ Last(log) = "review_pass" => review = RenderReview(remote)
        /\ LogIndex("bouncing_pass") > LogIndex("pool") =>
               /\ LogIndex("dispatched") > LogIndex("pool")
               /\ LogIndex("GET reviewbouncing") > LogIndex("dispatched")
               /\ LogIndex("GET reviewbouncing") < LogIndex("bouncing_pass")

\* set_subscribers added an address: the rebuild after the dispatch parsed a
\* page that shows it
C16_Witness ==
    /\ op.name = "set_subscribers"
    /\ LogIndex("dispatched") > 0
    /\ Last(log) = "review_pass"
    /\ desired # <<>>
    /\ Keys(subscribers) = Keys(desired)
    /\ Keys(subscribers) = remote.members

\* ------------------------------------------------------- failing submissions
\* C17: a dispatch in which post calls may raise still returns in the end, with
\* every worker stopped and every payload whose post did not raise submitted.
C17_DispatchSurvivesFailedPost ==
    <>(/\ pc = "d_done"
       /\ \A w \in StartedWorkers : wpc[w] \in {"exited", "raised"}
       /\ \A i \in 1..Len(requests) : handed[i] = 1)

\* ------------------------------------------------------------- poll bounds
\* C18: with instantaneous fetches, each followed by one sleep of FREQUENCY
\* seconds unless it ends the loop, a poll has slept no longer than
\* TIMEOUT + FREQUENCY seconds when it returns: it never makes more fetches
\* than fit into that time.
C18_PollReturnsWithinBound ==
    (phase = "body" /\ \E i \in 1..Len(log) : log[i] \in Writes) =>
        /\ PollFetches("GET review") * FREQUENCY <= TIMEOUT + FREQUENCY
        /\ PollFetches("GET reviewbouncing") * FREQUENCY <= TIMEOUT + FREQUENCY

\* a review poll that saw no change has returned at its deadline
C18_Witness ==
    /\ pc = "ufr_pass"
    /\ phase = "body"
    /\ deadline = 0
    /\ Text(review) = Text(page)
    /\ PollFetches("GET review") * FREQUENCY = TIMEOUT

\* ------------------------------------------------------------ missing table
\* C19: a pass over a page on which the table is not found raises nothing and
\* leaves the registry as a pass over a table without rows leaves it: the
\* review pass prunes a non-empty registry to empty, the bounce pass changes
\* nothing; the message printed is the authorization message when the cached
\* flag is false and the "no subscriptions" message when it is true.
C19_MissingTableIsZeroRows ==
    (outcome \in {"review", "bouncing", "KeyError"} /\ log # <<>>) =>
        /\ outcome # "KeyError"
        /\ rows = <<>>
        /\ outcome = "review" =>
               /\ subscribers = <<>>
               /\ subscribers = RowsToSubscribers(before, <<>>)
               /\ log = <<IF admin THEN "has no subscriptions" ELSE "AUTHMSG">>
        /\ outcome = "bouncing" =>
               /\ subscribers = before
               /\ subscribers =
                      UpdateBouncingFromRoot(before, [table |-> TRUE, rows |-> <<>>]).subs
               /\ log = <<IF admin THEN "has no bouncing subscriptions" ELSE "AUTHMSG">>

\* a review page without the table met a non-empty registry of an admin
C19_Witness ==
    /\ outcome = "review"
    /\ log = <<"has no subscriptions">>
    /\ admin
    /\ before # <<>>
    /\ subscribers = <<>>

\* ------------------------------------------------------ input normalization
\* the entries of an input that can be parsed
WellFormed(entry) ==
    IF outcome = "list normalized"
    THEN entry.type \in {"Subscriber", "tuple", "str"}
    ELSE IF outcome = "dict normalized"
    THEN entry.key # 0 /\ entry.vtype \in {"str", "Subscriber"}
    ELSE entry.email # 0

\* C20: normalizing a list, a dict or a file never raises, and the mapping it
\* returns has exactly the emails of the well-formed entries, each with the
\* name of the last well-formed entry for that email.
C20_MalformedEntriesSkipped ==
    (outcome \notin {"list", "dict", "file"}) =>
        /\ outcome # "IndexError"
        /\ LET good == SelectSeq(rows, WellFormed)
           IN /\ Keys(desired) = {good[i].email : i \in 1..Len(good)}
              /\ Injective(desired)
              /\ \A i \in 1..Len(good) :
                     (\A j \in (i + 1)..Len(good) : good[j].email # good[i].email)
                         => Lookup(desired, good[i].email).name = good[i].name

\* ------------------------------------------------------------ gate coverage
ReadAccessors == {"get_subscribers", "get_bouncing"}

\* C21 as stated: the read accessors are outside the privilege check, so a
\* call of get_subscribers() or get_bouncing() that returns, returns the
\* registry view, whatever the privilege flag says.
C21_Original ==
    (pc = "returned" /\ op.name \in ReadAccessors) =>
        result = (IF op.name = "get_subscribers" THEN "subscribers" ELSE "bouncing")

\* C21 amended: only update() is outside the privilege check. update() never
\* reaches the gate; every method of ADMIN_METHODS, the read accessors
\* included, passes it, and a read accessor returns the registry view when the
\* flag is true and None, with the denial message, when it is false.
C21_GateCoversAccessors ==
    /\ (op.name = "update") =>
           /\ pc \notin {"gate", "body", "n_gate"}
           /\ LogIndex("admin") = 0 /\ LogIndex("denied") = 0
    /\ (pc = "body" /\ op.name \in ADMIN_METHODS) => (admin /\ Last(log) = "admin")
    /\ (pc = "returned" /\ op.name \in ReadAccessors) =>
           IF admin
           THEN /\ result = (IF op.name = "get_subscribers"
                             THEN "subscribers" ELSE "bouncing")
                /\ Last(log) = "admin"
           ELSE /\ result = None
                /\ Last(log) = "denied"

\* get_subscribers() of a session without privileges has returned None
C21_Witness ==
    /\ pc = "returned"
    /\ op.name = "get_subscribers"
    /\ ~admin
    /\ remote.role \notin PRIV_ROLES
    /\ result = None
    /\ Last(log) = "denied"

\* ------------------------------------------------------------ session claims
\* C22: when the page log_in receives does not show the session as logged in,
\* log_in returns without raising: the step after the post only prints to
\* stderr; self.lists is left as it was (empty on a new session, whatever the
\* page links to), no populate thread is started, nothing is put on a queue and
\* no list is updated, with populate = TRUE as well.
C22_FailedLoginDoesNothing ==
    [][(sop = "log_in" /\ spc = "li_check" /\ ~LoggedIn(login)) =>
           /\ spc' = "returned"
           /\ stderr' # ""
           /\ UNCHANGED <<lists, ppc, pname, names, q, unfinished_tasks, updates>>]_vars

C22_Witness ==
    /\ sop = "log_in" /\ spc = "returned"
    /\ ~LoggedIn(login) /\ login.links # {}
    /\ populate
    /\ lists = {}
    /\ stderr = "Unable to log in"
    /\ \A w \in WorkerIds : ppc[w] = "unstarted"
    /\ \A n \in ListNames : updates[n] = <<>>

\* ------------------------------------------------------- threads and the cache
DispatchPcs == {"d_start", "d_put", "d_join", "d_stop", "d_tjoin", "d_done"}

\* a step a worker thread of the dispatch takes (get, post, task_done, exit)
WorkerStep ==
    \E w \in WorkerIds :
        /\ wpc[w] \in {"get", "posting", "task_done"}
        /\ wpc'[w] # wpc[w]
        /\ wpc'[w] # "unstarted"

\* C23: a step of a dispatch worker leaves the registry, the cached pages, the
\* privilege flag and the timestamp as they are; these change only in steps of
\* the calling thread, outside the dispatch, when no worker thread is running.
C23_WorkersLeaveCacheAlone ==
    [][/\ WorkerStep =>
              UNCHANGED <<subscribers, review, review_bouncing, admin, age>>
       /\ (<<subscribers, review, review_bouncing, admin, age>>' #
               <<subscribers, review, review_bouncing, admin, age>>) =>
              /\ pc \notin DispatchPcs
              /\ \A w \in WorkerIds : wpc[w] \in {"unstarted", "exited"}]_vars

\* a worker is posting a payload of set_subscribers while the registry still
\* holds the address the payload removes
C23_Witness ==
    /\ op.name = "set_subscribers"
    /\ pc \in DispatchPcs
    /\ \E w \in WorkerIds :
        /\ wpc[w] = "posting"
        /\ requests[wdata[w]].action = "action_del"
        /\ requests[wdata[w]].email \in Keys(subscribers)

\* ------------------------------------------------ Subscriber(...) on its own
\* the keywords a caller can pass: recognized ones and one that is not
KwargKeys == {"email", "mailing_list", "name", "bouncing", "nickname"}

FullKwargs ==
    [email : Emails, mailing_list : {"self"}, name : Names, bouncing : BOOLEAN,
     nickname : {"nick"}]

Kwargs == {[key \in S |-> full[key]] : full \in FullKwargs, S \in SUBSET KwargKeys}

\* a caller is about to call Subscriber(**sub_given)
InitSubscriber ==
    /\ NoDispatch
    /\ FreshList
    /\ NoSession
    /\ NoCallers
    /\ remote = [members |-> {}, bouncers |-> {}, role |-> "Owner"]
    /\ subscribers = <<>>
    /\ desired = <<>>
    /\ rows = <<>>
    /\ before = <<>>
    /\ outcome = "init"
    /\ sub_given \in Kwargs
    /\ sub_made = <<>>
    /\ sub_error = "pending"

\* Subscriber(**sub_given) returns the object or raises
Construct ==
    LET r == SubscriberInit(sub_given)
    IN /\ sub_error = "pending"
       /\ sub_made' = r.made
       /\ sub_error' = IF r.raised THEN "AssertionError" ELSE ""
       /\ stderr' = IF r.raised
                    THEN "Subscriber requires 'email' and 'mailing_list' arguments"
                    ELSE stderr
       /\ UNCHANGED <<sub_given, lists, spc, login, populate, names, ppc, pname,
                      updates, sop, logged_in, upc, ulog>>
       /\ UNCHANGED <<dvars, rvars, lvars, remote>>

NextSubscriber == Construct

SpecSubscriber == InitSubscriber /\ [][NextSubscriber]_vars

\* ------------------------------------------- update() called from two threads
\* what a step of a thread inside update() leaves alone
CallerFrame ==
    /\ UNCHANGED <<dvars, desired, rows, before, outcome>>
    /\ UNCHANGED <<op, phase, result, log, page, deadline, remote>>
    /\ UNCHANGED <<lists, spc, login, populate, names, ppc, pname, updates, stderr,
                   sop, logged_in, sub_given, sub_made, sub_error>>

\* an update() that returns at once while another thread is refreshing
UpdateCallMutExclusive(t) ==
    /\ upc[t] = "idle"
    /\ upc' = [upc EXCEPT ![t] = IF NeedsUpdate /\ \A u \in Callers : upc[u] \in {"idle", "done", "raised"}
                                 THEN "get_review" ELSE "done"]
    /\ ulog' = Append(ulog, [t |-> t, ev |-> IF upc'[t] = "done" THEN "fresh"
                                             ELSE "needs_update"])
    /\ UNCHANGED <<subscribers, review, review_bouncing, admin, age>>
    /\ CallerFrame

\* update(): if self.__needs_update()
UpdateCall(t) ==
    /\ upc[t] = "idle"
    /\ upc' = [upc EXCEPT ![t] = IF NeedsUpdate THEN "get_review" ELSE "done"]
    /\ ulog' = Append(ulog, [t |-> t, ev |-> IF NeedsUpdate THEN "needs_update"
                                             ELSE "fresh"])
    /\ UNCHANGED <<subscribers, review, review_bouncing, admin, age>>
    /\ CallerFrame

\* self.__get_review()
UpdateGetReview(t) ==
    /\ upc[t] = "get_review"
    /\ review' = RenderReview(remote)
    /\ upc' = [upc EXCEPT ![t] = "get_bouncing"]
    /\ ulog' = Append(ulog, [t |-> t, ev |-> "GET review"])
    /\ UNCHANGED <<subscribers, review_bouncing, admin, age>>
    /\ CallerFrame

\* self.__get_review_bouncing()
UpdateGetReviewBouncing(t) ==
    \E status \in BOOLEAN :
        /\ upc[t] = "get_bouncing"
        /\ review_bouncing' = RenderBouncing(remote, status)
        /\ upc' = [upc EXCEPT ![t] = "check_admin"]
        /\ ulog' = Append(ulog, [t |-> t, ev |-> "GET reviewbouncing"])
        /\ UNCHANGED <<subscribers, review, admin, age>>
        /\ CallerFrame

\* self.__check_admin()
UpdateCheckAdmin(t) ==
    /\ upc[t] = "check_admin"
    /\ admin' = CheckAdmin(review)
    /\ upc' = [upc EXCEPT ![t] = "review_pass"]
    /\ ulog' = Append(ulog, [t |-> t, ev |-> "check_admin"])
    /\ UNCHANGED <<subscribers, review, review_bouncing, age>>
    /\ CallerFrame

\* __update_from_review(False): the rebuild from self.review as it is now
UpdateReviewPass(t) ==
    /\ upc[t] = "review_pass"
    /\ subscribers' = UpdateSubscribersFromRoot(subscribers, review)
    /\ upc' = [upc EXCEPT ![t] = "bouncing_pass"]
    /\ ulog' = Append(ulog, [t |-> t, ev |-> "review_pass"])
    /\ UNCHANGED <<review, review_bouncing, admin, age>>
    /\ CallerFrame

\* __update_from_review_bouncing(False): the bounce pass over
\* self.review_bouncing as it is now; a KeyError ends the call
UpdateBouncingPass(t) ==
    LET r == UpdateBouncingFromRoot(subscribers, review_bouncing)
    IN /\ upc[t] = "bouncing_pass"
       /\ subscribers' = r.subs
       /\ upc' = [upc EXCEPT ![t] = IF r.raised THEN "raised" ELSE "stamp"]
       /\ ulog' = Append(ulog, [t |-> t, ev |-> "bouncing_pass"])
       /\ UNCHANGED <<review, review_bouncing, admin, age>>
       /\ CallerFrame

\* self._last_updated = datetime.now(), and update() returns
UpdateStamp(t) ==
    /\ upc[t] = "stamp"
    /\ age' = 0
    /\ upc' = [upc EXCEPT ![t] = "done"]
    /\ ulog' = Append(ulog, [t |-> t, ev |-> "stamp"])
    /\ UNCHANGED <<subscribers, review, review_bouncing, admin>>
    /\ CallerFrame

\* every call made is over; the threads may call again
CallersReturn ==
    /\ \A t \in Callers : upc[t] \in {"idle", "done", "raised"}
    /\ \E t \in Callers : upc[t] # "idle"
    /\ upc' = [t \in Callers |-> "idle"]
    /\ ulog' = <<>>
    /\ UNCHANGED <<subscribers, review, review_bouncing, admin, age>>
    /\ CallerFrame

\* another user of the server changes the list between two rounds of calls
RemoteChangeBetweenCalls ==
    \E r \in RemoteStates :
        /\ \A t \in Callers : upc[t] = "idle"
        /\ \E e \in ListEmails : /\ r.members \in {remote.members \cup {e},
                                                  remote.members \ {e}}
                                 /\ r.bouncers = remote.bouncers \cap r.members
                                 /\ r.role = remote.role
        /\ r # remote
        /\ remote' = r
        /\ UNCHANGED <<dvars, rvars, lvars, svars>>

\* the client does nothing for UPDATE_MINS minutes between two rounds of calls
TickBetweenCalls ==
    /\ \A t \in Callers : upc[t] = "idle"
    /\ Tick

InitRace ==
    /\ NoDispatch
    /\ FreshList
    /\ NoSession
    /\ NoCallers
    /\ NoConstruction
    /\ remote \in RemoteStates
    /\ subscribers = <<>>
    /\ desired = <<>>
    /\ rows = <<>>
    /\ before = <<>>
    /\ outcome = "init"

NextRace ==
    \/ \E t \in Callers : UpdateCall(t)
    \/ \E t \in Callers : UpdateGetReview(t)
    \/ \E t \in Callers : UpdateGetReviewBouncing(t)
    \/ \E t \in Callers : UpdateCheckAdmin(t)
    \/ \E t \in Callers : UpdateReviewPass(t)
    \/ \E t \in Callers : UpdateBouncingPass(t)
    \/ \E t \in Callers : UpdateStamp(t)
    \/ CallersReturn
    \/ RemoteChangeBetweenCalls
    \/ TickBetweenCalls

SpecRace == InitRace /\ [][NextRace]_vars

\* the position in ulog of thread t's event ev, 0 when there is none
UIndex(t, ev) ==
    IF \E i \in 1..Len(ulog) : ulog[i] = [t |-> t, ev |-> ev]
    THEN CHOOSE i \in 1..Len(ulog) : ulog[i] = [t |-> t, ev |-> ev]
    ELSE 0

\* how often thread t did ev in its call
UCount(t, ev) == Cardinality({i \in 1..Len(ulog) : ulog[i] = [t |-> t, ev |-> ev]})

\* C24: whether a thread entering update() goes on to refresh depends on
\* __needs_update alone, never on where another thread is; so two threads that
\* call update() on a stale list both pass the test, each does its own two
\* fetches, check_admin and both passes, and their page assignments and
\* registry passes interleave.
C24_GateGivesNoExclusion ==
    [][/\ \A t \in Callers :
              (upc[t] = "idle" /\ upc'[t] # "idle") =>
                  (upc'[t] = "get_review" <=> NeedsUpdate)
       /\ \A t \in Callers :
              (upc[t] = "done" /\ UIndex(t, "needs_update") > 0) =>
                  \A ev \in {"GET review", "GET reviewbouncing", "check_admin",
                             "review_pass", "bouncing_pass", "stamp"} :
                      UCount(t, ev) = 1]_vars

\* both threads passed the test before either had fetched anything, thread 2
\* replaced the review page between thread 1's fetch and thread 1's review
\* pass, and the four registry passes alternate between the threads
C24_Witness ==
    /\ \A t \in Callers : upc[t] = "done"
    /\ UIndex(1, "needs_update") < UIndex(1, "GET review")
    /\ UIndex(2, "needs_update") < UIndex(1, "GET review")
    /\ UIndex(2, "needs_update") > 0
    /\ UIndex(1, "GET review") < UIndex(2, "GET review")
    /\ UIndex(2, "GET review") < UIndex(1, "review_pass")
    /\ UIndex(1, "review_pass") < UIndex(2, "review_pass")
    /\ UIndex(2, "review_pass") < UIndex(1, "bouncing_pass")
    /\ UIndex(1, "bouncing_pass") < UIndex(2, "bouncing_pass")
    /\ Len(ulog) = 14

\* ------------------------------------------------------------ the worker pool
\* the payloads whose post call has begun and has not returned
InProgress == {i \in 1..Len(requests) : handed[i] > posted[i]}

\* C25: at every point of a dispatch at most W workers are inside the gateway
\* post call and at most W payloads are in progress, for every batch size; the
\* dispatch starts with no thread, creates exactly the W threads 1..W, and has
\* ended every one of them when it returns, so that no thread outlives its call.
C25_AtMostWInProgress ==
    /\ Cardinality({w \in WorkerIds : wpc[w] = "posting"}) <= concurrent
    /\ Cardinality(InProgress) <= concurrent
    /\ {w \in WorkerIds : wpc[w] # "unstarted"} =
           (IF pc = "d_start" THEN 1..di ELSE 1..concurrent)
    /\ pc = "d_done" => \A w \in StartedWorkers : wpc[w] = "exited"

\* a batch larger than the pool with every worker of a pool of two posting
C25_Witness ==
    /\ concurrent = MaxW
    /\ concurrent > 1
    /\ Len(requests) > concurrent
    /\ \A w \in StartedWorkers : wpc[w] = "posting"
    /\ Cardinality(InProgress) = concurrent

\* the stop signals waiting in the queue
StopsQueued == Cardinality({i \in 1..Len(q) : q[i] = StopSignal})

\* the workers that left their loop on a stop signal
Exited == {w \in WorkerIds : wpc[w] = "exited"}

\* C26: as soon as one stop signal has been enqueued, every payload has been
\* posted and marked done (none waits in the queue, none is held by a worker);
\* so no worker exits before that. The stop signals enqueued are as many as the
\* loop has counted, W in the end; every one is in the queue or was consumed by
\* one worker that exited on it; when the dispatch returns the queue is empty
\* and each of the W workers has consumed one.
C26_StopSignalsAfterAllDone ==
    /\ (StopsQueued > 0 \/ Exited # {}) =>
           /\ pc \in {"d_stop", "d_tjoin", "d_done"}
           /\ \A i \in 1..Len(requests) : posted[i] = 1
           /\ \A i \in 1..Len(q) : q[i] = StopSignal
           /\ \A w \in WorkerIds : wpc[w] \in {"unstarted", "get", "exited"}
           /\ unfinished_tasks = StopsQueued + Cardinality(Exited)
    /\ StopsQueued + Cardinality(Exited) =
           (IF pc = "d_stop" THEN di
            ELSE IF pc \in {"d_tjoin", "d_done"} THEN concurrent ELSE 0)
    /\ pc = "d_done" => (q = <<>> /\ Exited = StartedWorkers)

\* one of two workers has exited on its stop signal, the other signal is
\* still in the queue, after a batch larger than the queue was posted
C26_Witness ==
    /\ concurrent = 2
    /\ Len(requests) > QueueMaxsize(concurrent)
    /\ Cardinality(Exited) = 1
    /\ StopsQueued = 1

\* ------------------------------------------------------------ bounce fields
\* C27: after a bounce pass with at least one row, all rows naming registry
\* entries, the bouncing entries are exactly the entries of the rows, whatever
\* was bouncing before; every other entry carries the default bounce fields;
\* and the pass neither adds nor removes an entry.
C27_BouncingSetIsRowEmails ==
    (outcome = "bouncing" /\ rows # <<>> /\ RowEmails(rows) \subseteq Keys(before)) =>
        /\ Keys(GetBouncing(subscribers)) = RowEmails(rows)
        /\ \A e \in Keys(subscribers) \ RowEmails(rows) :
               BounceFields(Lookup(subscribers, e)) = BounceFields(DefaultBouncing)
        /\ KeyList(subscribers) = KeyList(before)

\* the pass named an entry that was not bouncing and left out one that was
C27_Witness ==
    /\ outcome = "bouncing"
    /\ rows # <<>>
    /\ RowEmails(rows) \subseteq Keys(before)
    /\ \E e \in Keys(before) \ RowEmails(rows) :
           Lookup(before, e).bouncing /\ ~Lookup(subscribers, e).bouncing
    /\ \E e \in RowEmails(rows) :
           ~Lookup(before, e).bouncing /\ Lookup(subscribers, e).bouncing

\* the bounce fields a row of the bouncing page gives the entry of this email
RowBounceFields(email) ==
    {BounceFields(tr_to_subscriber_info(email, info)) : info \in BounceInfos}

\* C28: an entry a review pass creates carries the default bounce fields; and
\* an entry's bounce fields are never anything but the defaults or the fields
\* of a bouncing-page row for its email, so a created entry keeps the defaults
\* until a bounce pass applies a row for it.
C28_NewEntryHasDefaultBounce ==
    /\ outcome = "review" =>
           \A e \in Keys(subscribers) \ Keys(before) :
               BounceFields(Lookup(subscribers, e)) = BounceFields(DefaultBouncing)
    /\ \A i \in 1..Len(subscribers) :
           \/ BounceFields(subscribers[i]) = BounceFields(DefaultBouncing)
           \/ BounceFields(subscribers[i]) \in RowBounceFields(subscribers[i].email)
    /\ outcome \in {"review", "reconcile"} =>
           \A e \in Keys(subscribers) \cap Keys(before) :
               BounceFields(Lookup(subscribers, e)) = BounceFields(Lookup(before, e))

\* a review pass created an entry next to one that is bouncing
C28_Witness ==
    /\ outcome = "review"
    /\ \E e \in Keys(subscribers) \ Keys(before) :
           BounceFields(Lookup(subscribers, e)) = BounceFields(DefaultBouncing)
    /\ \E e \in Keys(subscribers) \cap Keys(before) : Lookup(subscribers, e).bouncing

\* ------------------------------------------------------------ update() itself
\* the steps of an update() that refreshes, in the order update() and
\* __update_subscribers take them
RefreshSteps == <<"needs_update", "GET review", "GET reviewbouncing", "check_admin",
                  "review_pass", "bouncing_pass", "stamp">>

IsPrefix(s1, s2) == Len(s1) <= Len(s2) /\ SubSeq(s2, 1, Len(s1)) = s1

\* C29: an update() that finds the list fresh returns at once: no fetch, and
\* the cached pages, the flag, the registry and the timestamp stay as they
\* are. An update() that finds it stale takes the steps of RefreshSteps in that
\* order: each step changes only what is its own (the fetches the two pages,
\* check_admin the flag, the passes the registry), and the timestamp is set by
\* the last step alone.
C29_UpdateNoOpOrOrderedRefresh ==
    [][(op.name = "update" /\ pc # "idle") =>
           /\ (log = <<"fresh">>) \/ IsPrefix(log, RefreshSteps)
           /\ (pc = "returned") => (log = <<"fresh">> \/ log = RefreshSteps)
           /\ (pc = "u_check" /\ ~NeedsUpdate) =>
                  /\ pc' = "returned"
                  /\ log' = <<"fresh">>
                  /\ UNCHANGED <<review, review_bouncing, admin, subscribers, age>>
           /\ (pc = "u_check" /\ NeedsUpdate) => log' = <<"needs_update">>
           /\ review' # review => Last(log') = "GET review"
           /\ review_bouncing' # review_bouncing => Last(log') = "GET reviewbouncing"
           /\ admin' # admin => Last(log') = "check_admin"
           /\ subscribers' # subscribers => Last(log') \in {"review_pass", "bouncing_pass"}
           /\ age' # age => (log' = RefreshSteps /\ age' = 0)]_vars

\* update() on a populated list within UPDATE_MINS of a refresh after which
\* the server's list has changed: it returned without fetching
C29_Witness ==
    /\ op.name = "update"
    /\ pc = "returned"
    /\ log = <<"fresh">>
    /\ subscribers # <<>>
    /\ review # RenderReview(remote)

\* ------------------------------------------------------------ empty lists
\* the step in which a wrapper's update() tests __needs_update: the one of the
\* call, or the one of the get_bouncing a method body calls
StalenessTest == pc = "u_check" \/ (pc = "body" /\ phase' = "nested")

\* C30: an empty registry makes the list stale by itself: right after a
\* refresh that left the registry empty __needs_update holds; every update()
\* that tests it with an empty registry goes on to fetch; no wrapper reaches
\* its gate, and no update() returns, having found a list with an empty
\* registry fresh; and a wrapper that did not find the list fresh has fetched
\* both pages by the time it is at its gate.
C30_EmptyRegistryNeverFresh ==
    [][/\ (subscribers = <<>>) => NeedsUpdate
       /\ (StalenessTest /\ subscribers = <<>>) => pc' = "u_get_review"
       /\ (pc \in {"gate", "n_gate", "returned"} /\ UpdateLog = <<"fresh">>) =>
              subscribers # <<>>
       /\ (pc \in {"gate", "n_gate"} /\ UpdateLog # <<"fresh">>) =>
              /\ \E i \in 1..Len(UpdateLog) : UpdateLog[i] = "GET review"
              /\ \E i \in 1..Len(UpdateLog) : UpdateLog[i] = "GET reviewbouncing"]_vars

\* a call on a list refreshed just now, both pages cached and usable, is about
\* to fetch again because the registry is empty
C30_Witness ==
    /\ pc = "u_get_review"
    /\ log = <<"needs_update">>
    /\ subscribers = <<>>
    /\ review # NoPage
    /\ Truthy(review_bouncing)
    /\ age = 0

\* ------------------------------------------------------------ the privilege flag
\* C31: self._admin changes only in the __check_admin step of an update()
\* whose __needs_update held, and becomes what check_admin reads from the
\* cached review page; every step of a method body, the polls and rebuilds
\* after a write among them, leaves it as it is.
C31_FlagWrittenByUpdateOnly ==
    [][/\ admin' # admin =>
              /\ pc = "u_check_admin"
              /\ phase \in {"update", "nested"}
              /\ UpdateLog = <<"needs_update", "GET review", "GET reviewbouncing">>
              /\ admin' = CheckAdmin(review)
       /\ (phase = "body" /\ phase' = "body") => admin' = admin
       /\ (LogIndex("POST") > 0 \/ LogIndex("dispatched") > 0) => admin' = admin]_vars

\* after its write a method has replaced the cached review page by one that
\* no longer names a privileged role, and the flag still says admin
C31_Witness ==
    /\ op.name \in FullRefreshOps
    /\ phase = "body"
    /\ LogIndex("POST") > 0 \/ LogIndex("dispatched") > 0
    /\ Last(log) = "review_pass"
    /\ review = RenderReview(remote)
    /\ ~CheckAdmin(review)
    /\ admin

\* ------------------------------------------------------------ unusable input
\* C32: for a sub_obj that is a str naming no file, or of a type other than
\* list, dict and str, __subs_from_obj returns the empty dict and nothing is
\* raised; set_subscribers then builds exactly one remove payload for every
\* email of the registry, in the registry's order, and no add payload, and
\* hands that batch to the dispatcher whenever the registry is not empty.
C32_UnusableInputRemovesAll ==
    (outcome = "other normalized") =>
        /\ desired = <<>>
        /\ requests = [i \in 1..Len(subscribers) |-> RemoveRequest(subscribers[i].email)]
        /\ (log = <<"pool">>) <=> (subscribers # <<>>)

\* set_subscribers was handed the text of the address of a subscriber:
\* payloads remove that subscriber and the other one
C32_Witness ==
    /\ outcome = "other normalized"
    /\ op.type = "str"
    /\ op.email \in Keys(subscribers)
    /\ Len(requests) = 2
    /\ log = <<"pool">>

\* ------------------------------------------------------------ bouncing batches
BouncingBatchOps == {"reset_bouncing", "remove_bouncing_subscribers"}

\* C33: the batch reset_bouncing / remove_bouncing_subscribers dispatch holds,
\* in the registry's order, one payload (reset, or remove) for each entry whose
\* bouncing flag is set when the batch is built and none for any other entry;
\* no payload is handed to the gateway twice, and when the dispatch returns
\* each has been posted once.
C33_OnePayloadPerBouncingEntry ==
    (op.name \in BouncingBatchOps /\ pc \in DispatchPcs) =>
        LET bouncing == SelectSeq(subscribers, LAMBDA sub : sub.bouncing)
        IN /\ Len(requests) = Len(bouncing)
           /\ \A i \in 1..Len(requests) :
                  /\ requests[i] = (IF op.name = "reset_bouncing"
                                    THEN ResetRequest(bouncing[i].email)
                                    ELSE RemoveRequest(bouncing[i].email))
                  /\ handed[i] <= 1
                  /\ pc = "d_done" => posted[i] = 1
           /\ \A i \in 1..Len(subscribers) :
                  ~subscribers[i].bouncing =>
                      \A j \in 1..Len(requests) : requests[j].email # subscribers[i].email

\* remove_bouncing_subscribers has posted the one payload for the one
\* bouncing entry
C33_Witness ==
    /\ op.name = "remove_bouncing_subscribers"
    /\ pc = "d_done"
    /\ Len(requests) = Cardinality({i \in 1..Len(subscribers) : subscribers[i].bouncing})
    /\ requests # <<>>
    /\ \A i \in 1..Len(requests) : posted[i] = 1

\* ------------------------------------------------------------ set_subscribers
\* C34: with a server that carries out every add and remove before the post
\* returns, shows its members on the review page, and is changed by nobody
\* else: when set_subscribers(D), let through by the privilege check, returns,
\* the keys of the registry are the keys of D and are the members the server has.
C34_SetSubscribersConverges ==
    (op.name = "set_subscribers" /\ pc = "returned" /\ LogIndex("admin") > 0) =>
        /\ result # "KeyError"
        /\ Keys(subscribers) = Keys(desired)
        /\ Keys(subscribers) = remote.members

\* set_subscribers emptied a list that had a member: payloads were dispatched
\* and the registry was rebuilt from a page without a table
C34_Witness ==
    /\ op.name = "set_subscribers"
    /\ pc = "returned"
    /\ LogIndex("admin") > 0
    /\ LogIndex("dispatched") > 0
    /\ desired = <<>>
    /\ subscribers = <<>>
    /\ remote.members = {}
    /\ ~review.table

\* ------------------------------------------------------------ populating lists
\* the call got as far as __populate_all_lists
Populating ==
    \/ sop = "populate_all" /\ LoggedIn(login)
    \/ sop = "log_in" /\ LoggedIn(login) /\ populate

\* where a list name is while the lists are populated: still to be put, in the
\* queue, held by a populate thread, or updated
Places(n) ==
    Cardinality({i \in 1..Len(names) : names[i] = n})
        + Cardinality({i \in 1..Len(q) : q[i] = n})
        + Cardinality({w \in WorkerIds : pname[w] = n /\ ppc[w] = "update"})
        + Len(updates[n])

\* C35: while the lists are populated every list name is in one place only, so
\* no list is updated twice and no two populate threads hold the same list;
\* the queue never holds more than 2*W names; and the call returns only when
\* update() has run, and returned, once for each list, whatever L and W are.
C35_EachListUpdatedOnce ==
    /\ \A n \in ListNames : Len(updates[n]) <= 1
    /\ \A w1, w2 \in WorkerIds :
           (w1 # w2 /\ pname[w1] # 0) => pname[w1] # pname[w2]
    /\ (spc = "p_put") =>
           /\ \A n \in ListNames : Places(n) = (IF n \in lists THEN 1 ELSE 0)
           /\ Len(q) <= concurrent * 2
    /\ (spc \in {"returned", "idle"} /\ Populating) =>
           /\ \A n \in ListNames : Len(updates[n]) = (IF n \in lists THEN 1 ELSE 0)
           /\ \A w \in WorkerIds : ppc[w] \in {"unstarted", "get"}
           /\ q = <<>> /\ unfinished_tasks = 0

\* one populate thread has updated three lists, more than its queue holds,
\* and the call has returned
C35_Witness ==
    /\ spc = "returned"
    /\ Populating
    /\ concurrent = 1
    /\ Cardinality(lists) > 2 * concurrent
    /\ \A n \in lists : updates[n] = <<1>>

====
